---- MODULE Spec2Model ----
(***************************************************************************)
(* Model of the agent execution core of openclaw-contained for one task:   *)
(* the AgentTaskWorkflow loop (services/temporal-worker/worker.py), the    *)
(* capability review endpoints (control-plane/routers/capabilities.py),    *)
(* the image builder's build records (image-builder/main.py) and the       *)
(* deployment / task rows the workflow's activities write.                 *)
(***************************************************************************)
EXTENDS Integers, Sequences, FiniteSets, TLC

\* ---- bounds of the exploration ----
IterWindow == 3         \* iterations of a run that may end without a terminal flag
CapWindow == 1          \* a continuation starts at most this far below the iteration cap
MaxRequests == 2        \* CapabilityRequest rows
MaxBuilds == 2          \* POST /build calls accepted by the image builder
MaxReviews == 2         \* accepted calls of the review and legacy approve endpoints
MaxFaults == 1          \* activity requests that fail or time out within one run

\* ---- program constants ----
max_iterations == 50

VARIABLES
    pc,                  \* position of AgentTaskWorkflow.run
    iteration,           \* local `iteration`
    current_image,       \* self.current_image
    approval_received,   \* self.approval_received
    capability_approved, \* self.capability_approved
    argImage,            \* the current_image argument of run()
    stepImage,           \* agent_image argument of the last AgentStepWorkflow
    buildBase,           \* current_image argument of the build_agent_image activity
    buildId,             \* build the activity is polling (0: none)
    outputs,             \* TaskOutput rows (their iteration numbers, in insertion order)
    capRequests,         \* CapabilityRequest rows
    builds,              \* image builder's build records
    deployments,         \* Deployment rows
    taskStatus,          \* Task.status
    \* history of the run
    faults,              \* activity requests that failed or timed out so far
    reviews,             \* calls the review and legacy approve endpoints accepted
    stepsRun,            \* agent steps started by this run
    finalizeCalls,       \* statuses finalize_task was called with
    deployCalls,         \* create_deployment activity executions
    capCalls,            \* create_capability_request activity executions
    signalsSent,         \* signals the review endpoint has sent
    sigsHandled,         \* signals handled since the approval flags were last cleared
    path,                \* class of the iteration's envelope, then outcome of its wait
    lastBuild,           \* the last build_agent_image activity that returned
    \* review and legacy approve calls in flight (one database session each)
    reviewPc,            \* position of each call's handler
    reviewCall,          \* each call's endpoint, request id and decision
    loadedStatus,        \* status of the row as each call's session loaded it
    \* one agent step (AgentStepWorkflow) and the gateway's interaction log
    stepPc,              \* position of AgentStepWorkflow.run
    container,           \* status of the agent's container
    interactions,        \* _task_interactions[task_id] of the gateway
    turns_seen,          \* local `turns_seen`
    recorded,            \* record_agent_turn executions: turn_number and turn
    turnsMade,           \* turns the gateway recorded during the step
    polls,               \* passes of poll_agent_turns' loop the running activity has slept after
    passedOver,          \* collect_agent_result passed over a failed removal or a failed fetch
    \* one streaming chat completion at the LLM gateway
    gwPc,                \* position of chat_completions / stream_gemini
    provider,            \* detect_provider(req.model)
    attempt,             \* stream_gemini's `attempt`
    collected_lines,     \* stream_gemini's `collected_lines`
    malformed,           \* stream_gemini's `malformed`
    reply,               \* kind of HTTP response the client got
    emitted,             \* SSE events the client received, in order
    attemptLog,          \* how each upstream attempt ended
    \* Gemini requests in flight and the thought-signature cache
    sigPc,               \* position of each request's handler
    sigReq,              \* each request: streaming or not, the tool call its history refers to
    sigFwd,              \* thought_signature of that tool call as forwarded to Gemini
    sigAttempt,          \* stream_gemini's `attempt` of each request
    _thought_sig_cache,  \* the gateway's _thought_sig_cache
    delivered,           \* signature last delivered to a caller for each tool-call id
    expected,            \* `delivered` of the request's tool call when the request came in
    \* one task's interaction log at the gateway
    _task_interactions,  \* _task_interactions[task_id]: the `turn` of each entry
    chatPc,              \* chat completions of the task in flight
    lastRecord,          \* what _record_interaction did when it was last called
    purged,              \* a DELETE has removed entries
    quiet,               \* GETs (with their answers) and DELETEs since the last completion
    \* the gateway's provider configuration
    environ,             \* os.getenv of each key when the process starts
    _config,             \* the in-memory _config
    _config_loaded,      \* _config_loaded
    llm_provider_config, \* the table: <<>> (no row) or <<value>> for each key
    lastPosted,          \* <<>> or <<value>>: what POST /config last set each key to
    shown,               \* <<>> or <<answer>>: the last answer of get_config since the start
    dbFailed,            \* a statement on llm_provider_config has failed
    \* deployments, their containers and the start and stop activities
    otherPorts,          \* host ports in 9100..9120 bound by other containers of the daemon
    depStatus,           \* Deployment.status
    depHostPort,         \* Deployment.host_port (0: None)
    depContainer,        \* Deployment.container_id (0: None)
    cont,                \* the daemon's container named deploy-<id>
    startPc,             \* position of start_deployment_container
    used_ports,          \* its local `used_ports`
    host_port,           \* its local `host_port` (0: None)
    startErr,            \* the exception it caught
    stopPc,              \* position of stop_deployment_container
    starts,              \* start workflows begun for each deployment
    bindFailed,          \* the deployment's `run` has failed on a bound port
    \* POST /deployments/{id}/approve calls on one deployment and its build workflow
    approvePc,           \* position of each call's handler
    decision,            \* each call's `decision`: approved and notes
    deployment,          \* the Deployment row: status and error
    buildWorkflow,       \* the workflow deploy-build-<id>: none, started, building, closed
    buildsStarted,       \* DeploymentBuildWorkflow executions started
    \* POST /deployments/{id}/start calls on one built deployment
    runPc,               \* position of each call and of its start_deployment_container
    runHostPort,         \* each activity's local `host_port` (0: None)
    started,             \* the Deployment row: status, container_id, host_port
    deployContainer,     \* the daemon's container named deploy-<id>
    \* the agent wrapper in its container, the task's workspace and the rows it leads to
    wrapperPc,           \* the container of the iteration: running, exited; done: the run is over
    ITERATION,           \* the wrapper's ITERATION, the workflow's `iteration`
    container_output,    \* the marker block of the container's log: <<>> or <<result>>
    result_json,         \* /workspace/result.json: <<>> or <<the result and who wrote it>>
    collected,           \* what collect_agent_result returned last, for which iteration, from whose output
    requestRows          \* CapabilityRequest rows of the task: who posted each, in which iteration

wfVars == <<pc, iteration, current_image, approval_received, capability_approved,
            argImage, stepImage, buildBase, buildId>>
envVars == <<outputs, capRequests, builds, deployments, taskStatus>>
histVars == <<faults, reviews, stepsRun, finalizeCalls, deployCalls, capCalls, signalsSent,
              sigsHandled, path, lastBuild>>
revVars == <<reviewPc, reviewCall, loadedStatus>>
stepVars == <<stepPc, container, interactions, turns_seen, recorded, turnsMade, polls,
             passedOver>>
gwVars == <<gwPc, provider, attempt, collected_lines, malformed, reply, emitted, attemptLog>>
sigVars == <<sigPc, sigReq, sigFwd, sigAttempt, _thought_sig_cache, delivered, expected>>
logVars == <<_task_interactions, chatPc, lastRecord, purged, quiet>>
cfgVars == <<environ, _config, _config_loaded, llm_provider_config, lastPosted, shown,
             dbFailed>>
depVars == <<otherPorts, depStatus, depHostPort, depContainer, cont, startPc, used_ports,
             host_port, startErr, stopPc, starts, bindFailed>>
apVars == <<approvePc, decision, deployment, buildWorkflow, buildsStarted>>
dblVars == <<runPc, runHostPort, started, deployContainer>>
wrapVars == <<wrapperPc, ITERATION, container_output, result_json, collected, requestRows>>
lateVars == <<apVars, dblVars, wrapVars>>
moreVars == <<sigVars, logVars, cfgVars, depVars, lateVars>>
sideVars == <<revVars, stepVars, gwVars, moreVars>>
vars == <<wfVars, envVars, histVars, sideVars>>

\* ---- images ----
\* An image reference is registry prefix + repository tag; kind "task" is
\* openclaw-agent:{task_id}-v{ver}.
Image(reg, kind, ver) == [reg |-> reg, kind |-> kind, ver |-> ver]
NoImage == Image("", "", 0)
DefaultImage == Image("localhost", "openclaw", 0)
FallbackImage == Image("localhost", "base", 0)

\* The image builder's registry prefix as deployed next to the worker, whose
\* build_agent_image rewrites "registry:5000/" to "localhost:5000/".
REGISTRY_URL == "registry"

ToRegistry(img) ==
    IF img.reg = "localhost" THEN [img EXCEPT !.reg = "registry"] ELSE img

ToLocalhost(img) ==
    IF img.reg = "registry" THEN [img EXCEPT !.reg = "localhost"] ELSE img

\* ---- envelopes ----
\* What the agent's wrapper may have written between the stdout markers or to
\* result.json (and what the activity returns when it cannot reach the
\* container): the flags the workflow tests.
Results ==
    [agent_failed : BOOLEAN, deployment_requested : BOOLEAN,
     completed : BOOLEAN, capability_requested : BOOLEAN, parse_error : {FALSE}]

\* A source of the result: <<>> when it is absent or does not parse, <<r>>
\* when it parses to r.
Parsed == {<<>>} \cup {<<r>> : r \in Results}

\* collect_agent_result with the fallback returning a failure envelope.
collect_agent_result_Failure(marker, file) ==
    IF marker # <<>> THEN marker[1]
    ELSE IF file # <<>> THEN file[1]
    ELSE [agent_failed |-> TRUE, deployment_requested |-> FALSE, completed |-> FALSE,
          capability_requested |-> FALSE, parse_error |-> TRUE]

\* collect_agent_result: the marker block of the container log, else the
\* workspace's result.json, else the "no structured result" fallback.
collect_agent_result(marker, file) ==
    IF marker # <<>> THEN marker[1]
    ELSE IF file # <<>> THEN file[1]
    ELSE [agent_failed |-> FALSE, deployment_requested |-> FALSE, completed |-> FALSE,
          capability_requested |-> FALSE, parse_error |-> TRUE]

\* The envelopes an agent step may return.
Envelopes == {collect_agent_result(marker, file) : marker \in Parsed, file \in Parsed}

Terminal(env) == env.agent_failed \/ env.deployment_requested \/ env.completed

\* The first test of the loop body's if-chain that an envelope satisfies (and,
\* for agent_failed, whether any of the flags tested after it is set too); the
\* envelope of collect_agent_result's fallback, which alone carries
\* parse_error, is classed apart.
Classify(env) ==
    CASE env.parse_error -> "parse_error"
      [] env.agent_failed /\ (env.deployment_requested \/ env.completed
                                \/ env.capability_requested) -> "agent_failed_with_flags"
      [] env.agent_failed -> "agent_failed"
      [] env.deployment_requested -> "deployment"
      [] env.completed -> "completed"
      [] env.capability_requested -> "capability"
      [] OTHER -> "continue"

\* A request of an activity either goes through or fails (or, for a build,
\* outlasts its timeout); the activities' except branches swallow the failure.
\* Swallow(n) books the n failures of one step of the run.
Fails(ok) == IF ok THEN 0 ELSE 1

Swallow(n) == faults + n <= MaxFaults /\ faults' = faults + n

SeqMax(s) == IF s = <<>> THEN 0 ELSE CHOOSE m \in {s[i] : i \in 1..Len(s)} :
                                         \A i \in 1..Len(s) : s[i] <= m

NoBuild == [outcome |-> "none", base |-> NoImage, ret |-> NoImage, lastOk |-> NoImage]

\* ---- calls of the review endpoints ----
MaxCalls == 2           \* review / legacy approve calls that may be in flight together

Calls == 1..MaxCalls

NoCall == [endpoint |-> "none", request_id |-> 0, decision |-> "none"]

\* No call of the review endpoints is in flight.
NoCalls ==
    /\ reviewPc = [c \in Calls |-> "idle"]
    /\ reviewCall = [c \in Calls |-> NoCall]
    /\ loadedStatus = [c \in Calls |-> "none"]

\* ---- one agent step ----
MaxTurns == 3           \* LLM turns of the agent within one step
MaxRecorded == 4        \* record_agent_turn executions within one step

_MAX_INTERACTIONS_PER_TASK == 100

\* poll_agent_turns: `max_polls = 600  # ~30 min at 3s intervals`
max_polls == 600

\* No agent step is looked at turn by turn.
NoStep ==
    /\ stepPc = "idle"
    /\ container = "none"
    /\ interactions = <<>>
    /\ turns_seen = 0
    /\ recorded = <<>>
    /\ turnsMade = 0
    /\ polls = 0
    /\ passedOver = FALSE

\* ---- one streaming request at the gateway ----
MaxContent == 1         \* content chunks of one upstream stream or response
MaxToolCalls == 1       \* tool_calls deltas of one upstream stream

max_retries == 3

Providers == {"ollama", "gemini", "anthropic", "openai"}

\* An SSE event: the upstream attempt it came from (0: made by the gateway),
\* its kind and the finish_reason of its choice ("null": none).
Chunk(a, kind, finish_reason) == [attempt |-> a, kind |-> kind, finish_reason |-> finish_reason]

Done(a) == Chunk(a, "done", "null")

\* No chat completion is in progress.
NoRequest ==
    /\ gwPc = "idle"
    /\ provider = "none"
    /\ attempt = 0
    /\ collected_lines = <<>>
    /\ malformed = FALSE
    /\ reply = "none"
    /\ emitted = <<>>
    /\ attemptLog = <<>>

\* ---- Gemini requests and the thought-signature cache ----
MaxSigRequests == 2     \* Gemini requests that may be in flight together

SigRequests == 1..MaxSigRequests

\* The tool-call id and the signatures Gemini hands out for it (an id may
\* come back with another signature; "": the field is missing or empty),
\* and what a caller may put where the signature belongs.
TcIds == {"call_x"}

Sigs == {"sig_1", "sig_2"}

CallerSigs == {"", "from_caller"}

NoSigRequest == [stream |-> FALSE, id |-> "", sig |-> ""]

\* No Gemini request is in flight and the gateway process has just started.
NoSigs ==
    /\ sigPc = [r \in SigRequests |-> "idle"]
    /\ sigReq = [r \in SigRequests |-> NoSigRequest]
    /\ sigFwd = [r \in SigRequests |-> ""]
    /\ sigAttempt = [r \in SigRequests |-> 0]
    /\ _thought_sig_cache = [id \in {} |-> ""]
    /\ delivered = [id \in TcIds |-> ""]
    /\ expected = [r \in SigRequests |-> ""]

\* ---- one task's interaction log ----
MaxCompletions == 2     \* chat completions of the task that may be in flight together
MaxDrainOps == 4        \* GETs and DELETEs followed after a completion

Completions == 1..MaxCompletions

\* The gateway has just started: no log for the task, no completion in flight.
NoLog ==
    /\ _task_interactions = <<>>
    /\ chatPc = [c \in Completions |-> "idle"]
    /\ lastRecord = "none"
    /\ purged = FALSE
    /\ quiet = <<>>

\* ---- the gateway's provider configuration ----
\* The configuration keys: the URL, and one of the three API keys, which
\* update_config and get_config treat alike.
_CONFIG_KEYS == {"OLLAMA_URL", "GEMINI_API_KEY"}

\* Strings, as sequences of characters.
Blank == <<>>

Values == {Blank, <<"k", "e", "y", "1">>, <<"k", " ">>, <<" ">>}

\* The environment of the process: OLLAMA_URL has a non-empty default, an
\* API key may be set or not.
Environments ==
    {[k \in _CONFIG_KEYS |-> IF k = "OLLAMA_URL" THEN <<"u", "r", "l">> ELSE e] :
        e \in {Blank, <<"e", "n", "v", "k", "e", "y">>}}

\* The module has been imported in environment env: _config holds its
\* values, nothing is loaded, the table is empty.
FreshConfig(env) ==
    /\ environ = env
    /\ _config = environ
    /\ _config_loaded = FALSE
    /\ llm_provider_config = [k \in _CONFIG_KEYS |-> <<>>]
    /\ lastPosted = [k \in _CONFIG_KEYS |-> <<>>]
    /\ shown = <<>>
    /\ dbFailed = FALSE

\* ---- deployments and their containers ----
MaxDeployments == 2     \* deployments that are built
MaxStarts == 2          \* start workflows of one deployment

Deployments == 1..MaxDeployments

\* range(9100, 9121)
Ports == 9100..9120

\* The ports of the range that may be free of other containers.
MaybeFree == {9100, 9101, 9120}

NoContainer == [state |-> "none", port |-> 0, id |-> 0]

\* The deployments are built, none has run, no activity is in progress;
\* other containers bind the ports `others`.
DeploymentsBuilt(others) ==
    /\ otherPorts = others
    /\ depStatus = [d \in Deployments |-> "built"]
    /\ depHostPort = [d \in Deployments |-> 0]
    /\ depContainer = [d \in Deployments |-> 0]
    /\ cont = [d \in Deployments |-> NoContainer]
    /\ startPc = [d \in Deployments |-> "idle"]
    /\ used_ports = [d \in Deployments |-> {}]
    /\ host_port = [d \in Deployments |-> 0]
    /\ startErr = [d \in Deployments |-> "none"]
    /\ stopPc = [d \in Deployments |-> "idle"]
    /\ starts = [d \in Deployments |-> 0]
    /\ bindFailed = [d \in Deployments |-> FALSE]

\* ---- approval of one deployment ----
MaxApproveCalls == 2    \* POST /approve calls that may be in flight together

ApproveCalls == 1..MaxApproveCalls

NoDecision == [approved |-> FALSE, notes |-> ""]

\* create_deployment has stored the deployment, in pending_approval; nobody
\* has decided on it.
PendingApproval ==
    /\ approvePc = [c \in ApproveCalls |-> "idle"]
    /\ decision = [c \in ApproveCalls |-> NoDecision]
    /\ deployment = [status |-> "pending_approval", error |-> ""]
    /\ buildWorkflow = "none"
    /\ buildsStarted = 0

\* Nothing outside the task's workflows is going on.
NoConfig == FreshConfig(CHOOSE env \in Environments : env["GEMINI_API_KEY"] = Blank)

NoDeployments == DeploymentsBuilt({})

\* ---- starts of one deployment ----
MaxStartCalls == 2      \* POST /start calls on the deployment

StartCalls == 1..MaxStartCalls

\* The deployment is built and has no container; nobody has started it.
BuiltNotStarted ==
    /\ runPc = [c \in StartCalls |-> "idle"]
    /\ runHostPort = [c \in StartCalls |-> 0]
    /\ started = [status |-> "built", container_id |-> 0, host_port |-> 0]
    /\ deployContainer = NoContainer

\* ---- the agent wrapper ----
MaxWrapperRuns == 2     \* iterations of the run whose container is followed

NothingCollected == [iteration |-> 0, from |-> 0, result |-> <<>>]

\* The container of the first iteration of a first run has been launched on a
\* new workspace.
FirstContainer ==
    /\ wrapperPc = "running"
    /\ ITERATION = 1
    /\ container_output = <<>>
    /\ result_json = <<>>
    /\ collected = NothingCollected
    /\ requestRows = <<>>

LateAtRest == PendingApproval /\ BuiltNotStarted /\ FirstContainer

AtRest == NoSigs /\ NoLog /\ NoConfig /\ NoDeployments /\ LateAtRest

\* ---- initial states ----
\* A first run (no current_image argument, no outputs yet) or a continuation
\* run started on the base image after earlier runs stored `prior` outputs.
PriorIterations == {0} \cup ((max_iterations - CapWindow)..max_iterations)

Init ==
    /\ pc = "start"
    /\ iteration = 0
    /\ current_image = DefaultImage
    /\ approval_received = FALSE
    /\ capability_approved = FALSE
    /\ \E prior \in PriorIterations :
          /\ outputs = [i \in 1..prior |-> i]
          /\ argImage = (IF prior = 0 THEN NoImage ELSE FallbackImage)
    /\ stepImage = NoImage
    /\ buildBase = NoImage
    /\ buildId = 0
    /\ capRequests = <<>>
    /\ builds = <<>>
    /\ deployments = <<>>
    /\ taskStatus = "running"
    /\ faults = 0
    /\ reviews = 0
    /\ stepsRun = 0
    /\ finalizeCalls = <<>>
    /\ deployCalls = 0
    /\ capCalls = 0
    /\ signalsSent = 0
    /\ sigsHandled = 0
    /\ path = "none"
    /\ lastBuild = NoBuild
    /\ NoCalls
    /\ NoStep
    /\ NoRequest
    /\ AtRest

\* ---- AgentTaskWorkflow.run ----

\* get_last_iteration: the highest stored iteration, or 0 when the request
\* fails or there are no outputs.
get_last_iteration(ok) == IF ok THEN SeqMax(outputs) ELSE 0

\* run(), up to the loop: adopt the current_image argument of a continuation,
\* initialize_task, and fetch the starting iteration.
Initialize ==
    /\ pc = "start"
    /\ current_image' = IF argImage # NoImage THEN argImage ELSE current_image
    /\ IF argImage # NoImage
       THEN \E ok \in BOOLEAN :
               /\ iteration' = get_last_iteration(ok)
               /\ Swallow(Fails(ok))
       ELSE /\ iteration' = 0
            /\ Swallow(0)
    /\ pc' = "loop"
    /\ UNCHANGED <<approval_received, capability_approved, argImage, stepImage,
                   buildBase, buildId>>
    /\ UNCHANGED envVars
    /\ UNCHANGED <<reviews, stepsRun, finalizeCalls, deployCalls, capCalls, signalsSent,
                   sigsHandled, path, lastBuild>>
    /\ UNCHANGED sideVars

\* StartIteration with the loop condition written `<=`.
StartIteration_OffByOne ==
    /\ pc = "loop"
    /\ iteration <= max_iterations
    /\ iteration' = iteration + 1
    /\ stepImage' = current_image
    /\ pc' = "step"
    /\ stepsRun' = stepsRun + 1
    /\ path' = "none"
    /\ UNCHANGED <<current_image, approval_received, capability_approved, argImage,
                   buildBase, buildId>>
    /\ UNCHANGED <<envVars, faults, reviews, finalizeCalls, deployCalls, capCalls, signalsSent,
                   sigsHandled, lastBuild>>
    /\ UNCHANGED sideVars

\* `while iteration < max_iterations: iteration += 1`, then the child workflow
\* AgentStepWorkflow is started on self.current_image.
StartIteration ==
    /\ pc = "loop"
    /\ iteration < max_iterations
    /\ iteration' = iteration + 1
    /\ stepImage' = current_image
    /\ pc' = "step"
    /\ stepsRun' = stepsRun + 1
    /\ path' = "none"
    /\ UNCHANGED <<current_image, approval_received, capability_approved, argImage,
                   buildBase, buildId>>
    /\ UNCHANGED <<envVars, faults, reviews, finalizeCalls, deployCalls, capCalls, signalsSent,
                   sigsHandled, lastBuild>>
    /\ UNCHANGED sideVars

\* finalize_task(task_id, final_status): POST /complete or /fail; a failing
\* request is only logged.  The workflow returns after it.
finalize_task(final_status, updated) ==
    /\ taskStatus' = IF updated THEN final_status ELSE taskStatus
    /\ finalizeCalls' = Append(finalizeCalls, final_status)
    /\ pc' = "done"

\* The loop condition is false: step 3, finalize_task(task_id), whose status
\* argument defaults to "completed".
LoopExit ==
    /\ pc = "loop"
    /\ ~(iteration < max_iterations)
    /\ \E updated \in BOOLEAN :
          /\ finalize_task("completed", updated)
          /\ Swallow(Fails(updated))
    /\ UNCHANGED <<iteration, current_image, approval_received, capability_approved,
                   argImage, stepImage, buildBase, buildId>>
    /\ UNCHANGED <<outputs, capRequests, builds, deployments>>
    /\ UNCHANGED <<reviews, stepsRun, deployCalls, capCalls, signalsSent, sigsHandled,
                   path, lastBuild>>
    /\ UNCHANGED sideVars

\* The child workflow AgentStepWorkflow returns the envelope `env` of the
\* agent's container; then store_task_output runs, and a failure of that
\* activity is swallowed by the workflow.
AgentStep(env, stored) ==
    /\ pc = "step"
    /\ Terminal(env) \/ stepsRun < IterWindow \/ iteration = max_iterations
    /\ path' = Classify(env)
    /\ outputs' = IF stored THEN Append(outputs, iteration) ELSE outputs
    /\ UNCHANGED <<iteration, current_image, approval_received, capability_approved,
                   argImage, stepImage, buildBase, buildId>>
    /\ UNCHANGED <<builds, reviews, stepsRun, signalsSent, sigsHandled, lastBuild>>
    /\ UNCHANGED sideVars

\* BranchAgentFailed calling finalize_task without the "failed" argument.
BranchAgentFailed_DefaultStatus ==
    \E env \in Envelopes, stored, updated \in BOOLEAN :
       /\ env.agent_failed
       /\ AgentStep(env, stored)
       /\ finalize_task("completed", updated)
       /\ Swallow(Fails(stored) + Fails(updated))
       /\ UNCHANGED <<capRequests, deployments, deployCalls, capCalls>>

\* `if result.get("agent_failed")`: finalize_task(task_id, "failed") and return.
BranchAgentFailed ==
    \E env \in Envelopes, stored, updated \in BOOLEAN :
       /\ env.agent_failed
       /\ AgentStep(env, stored)
       /\ finalize_task("failed", updated)
       /\ Swallow(Fails(stored) + Fails(updated))
       /\ UNCHANGED <<capRequests, deployments, deployCalls, capCalls>>

\* `if result.get("deployment_requested")`: the create_deployment activity
\* posts to the control plane (row in pending_approval) or, when the request
\* fails, returns an error dict; then `break` and step 3, finalize_task(task_id).
BranchDeployment ==
    \E env \in Envelopes, stored, posted, updated \in BOOLEAN :
       /\ ~env.agent_failed
       /\ env.deployment_requested
       /\ AgentStep(env, stored)
       /\ deployments' = IF posted
                         THEN Append(deployments, [status |-> "pending_approval"])
                         ELSE deployments
       /\ deployCalls' = deployCalls + 1
       /\ finalize_task("completed", updated)
       /\ Swallow(Fails(stored) + Fails(posted) + Fails(updated))
       /\ UNCHANGED <<capRequests, capCalls>>

\* BranchCompleted with `continue` in place of `break`.
BranchCompleted_Continues ==
    \E env \in Envelopes, stored \in BOOLEAN :
       /\ ~env.agent_failed
       /\ ~env.deployment_requested
       /\ env.completed
       /\ AgentStep(env, stored)
       /\ pc' = "loop"
       /\ Swallow(Fails(stored))
       /\ UNCHANGED <<capRequests, deployments, taskStatus, finalizeCalls, deployCalls,
                      capCalls>>

\* `if result.get("completed"): break`, then step 3, finalize_task(task_id).
BranchCompleted ==
    \E env \in Envelopes, stored, updated \in BOOLEAN :
       /\ ~env.agent_failed
       /\ ~env.deployment_requested
       /\ env.completed
       /\ AgentStep(env, stored)
       /\ finalize_task("completed", updated)
       /\ Swallow(Fails(stored) + Fails(updated))
       /\ UNCHANGED <<capRequests, deployments, deployCalls, capCalls>>

\* `if result.get("capability_requested")`: the create_capability_request
\* activity posts a pending row (or returns an error dict), then the workflow
\* waits for the approval signal.
BranchCapability ==
    \E env \in Envelopes, stored, posted \in BOOLEAN :
       /\ ~Terminal(env)
       /\ env.capability_requested
       /\ Len(capRequests) < MaxRequests
       /\ AgentStep(env, stored)
       /\ capRequests' = IF posted
                         THEN Append(capRequests, [status |-> "pending"])
                         ELSE capRequests
       /\ capCalls' = capCalls + 1
       /\ pc' = "wait"
       /\ Swallow(Fails(stored) + Fails(posted))
       /\ UNCHANGED <<deployments, taskStatus, finalizeCalls, deployCalls>>

\* No flag set: next turn of the loop.
BranchContinue ==
    \E env \in Envelopes, stored \in BOOLEAN :
       /\ ~Terminal(env)
       /\ ~env.capability_requested
       /\ AgentStep(env, stored)
       /\ pc' = "loop"
       /\ Swallow(Fails(stored))
       /\ UNCHANGED <<capRequests, deployments, taskStatus, finalizeCalls, deployCalls,
                      capCalls>>

\* wait_condition returns and self.capability_approved is true: schedule
\* build_agent_image(task_id, capability, self.current_image).
WaitApproved ==
    /\ pc = "wait"
    /\ approval_received
    /\ capability_approved
    /\ buildBase' = current_image
    /\ path' = "approved"
    /\ pc' = "build_post"
    /\ UNCHANGED <<iteration, current_image, approval_received, capability_approved,
                   argImage, stepImage, buildId>>
    /\ UNCHANGED <<envVars, faults, reviews, stepsRun, finalizeCalls, deployCalls, capCalls,
                   signalsSent, sigsHandled, lastBuild>>
    /\ UNCHANGED sideVars

\* WaitDenied without the test of self.capability_approved: the build is
\* scheduled after a denial too.
WaitDenied_Builds ==
    /\ pc = "wait"
    /\ approval_received
    /\ ~capability_approved
    /\ buildBase' = current_image
    /\ path' = "denied"
    /\ pc' = "build_post"
    /\ UNCHANGED <<iteration, current_image, approval_received, capability_approved,
                   argImage, stepImage, buildId>>
    /\ UNCHANGED <<envVars, faults, reviews, stepsRun, finalizeCalls, deployCalls, capCalls,
                   signalsSent, sigsHandled, lastBuild>>
    /\ UNCHANGED sideVars

\* wait_condition returns and self.capability_approved is false: log the
\* denial, reset the approval flags, next turn of the loop.
WaitDenied ==
    /\ pc = "wait"
    /\ approval_received
    /\ ~capability_approved
    /\ approval_received' = FALSE
    /\ capability_approved' = FALSE
    /\ path' = "denied"
    /\ sigsHandled' = 0
    /\ pc' = "loop"
    /\ UNCHANGED <<iteration, current_image, argImage, stepImage, buildBase, buildId>>
    /\ UNCHANGED <<envVars, faults, reviews, stepsRun, finalizeCalls, deployCalls, capCalls,
                   signalsSent, lastBuild>>
    /\ UNCHANGED sideVars

\* The 24 h timeout of wait_condition expires first: it raises
\* asyncio.TimeoutError, which run() does not catch.
ApprovalTimeout ==
    /\ pc = "wait"
    /\ ~approval_received
    /\ path' = "timeout"
    /\ pc' = "raised"
    /\ UNCHANGED <<iteration, current_image, approval_received, capability_approved,
                   argImage, stepImage, buildBase, buildId>>
    /\ UNCHANGED <<envVars, faults, reviews, stepsRun, finalizeCalls, deployCalls, capCalls,
                   signalsSent, sigsHandled, lastBuild>>
    /\ UNCHANGED sideVars

\* ---- build_agent_image activity and the workflow's adoption of its result ----

LiveBuilds == {b \in 1..Len(builds) : builds[b].status \in {"success", "building", "pending"}}

\* `new_image = await build_agent_image(...)`; `self.current_image = new_image`;
\* update_task_policy (which changes nothing); "Reset approval flags"; next
\* turn of the loop.
BuildReturn(img, outcome) ==
    /\ current_image' = img
    /\ lastBuild' = [outcome |-> outcome, base |-> buildBase, ret |-> img,
                     lastOk |-> IF outcome = "success" THEN img ELSE lastBuild.lastOk]
    /\ buildId' = 0
    /\ approval_received' = FALSE
    /\ capability_approved' = FALSE
    /\ sigsHandled' = 0
    /\ pc' = "loop"
    /\ UNCHANGED <<iteration, argImage, stepImage, buildBase>>
    /\ UNCHANGED envVars
    /\ UNCHANGED <<reviews, stepsRun, finalizeCalls, deployCalls, capCalls, signalsSent,
                   path>>
    /\ UNCHANGED sideVars

\* POST /build accepted: the builder numbers the version, emits the Dockerfile
\* FROM the requested base and records the build as pending.
BuildPostAccepted ==
    /\ pc = "build_post"
    /\ Len(builds) < MaxBuilds
    /\ LET version == Cardinality(LiveBuilds) + 1 IN
          builds' = Append(builds, [status |-> "pending",
                                    tag |-> Image("", "task", version),
                                    base |-> ToRegistry(buildBase)])
    /\ buildId' = Len(builds) + 1
    /\ pc' = "build_poll"
    /\ UNCHANGED <<iteration, current_image, approval_received, capability_approved,
                   argImage, stepImage, buildBase>>
    /\ UNCHANGED <<outputs, capRequests, deployments, taskStatus>>
    /\ UNCHANGED histVars
    /\ UNCHANGED sideVars

\* POST /build fails (builder unreachable or non-2xx): the activity's except
\* branch returns the fallback image.
BuildPostError ==
    /\ pc = "build_post"
    /\ BuildReturn(FallbackImage, "failed")
    /\ Swallow(1)

\* The status poll sees "success": the tag is rewritten to localhost:5000/.
BuildPollSuccess ==
    /\ pc = "build_poll"
    /\ builds[buildId].status = "success"
    /\ BuildReturn(ToLocalhost(builds[buildId].tag), "success")
    /\ UNCHANGED faults

\* BuildPollFailed without the except branch: the activity fails and the
\* exception ends the workflow run.
BuildPollFailed_Raises ==
    /\ pc = "build_poll"
    /\ builds[buildId].status = "failed"
    /\ lastBuild' = [outcome |-> "failed", base |-> buildBase, ret |-> NoImage,
                     lastOk |-> lastBuild.lastOk]
    /\ buildId' = 0
    /\ pc' = "raised"
    /\ UNCHANGED <<iteration, current_image, approval_received, capability_approved,
                   argImage, stepImage, buildBase>>
    /\ UNCHANGED envVars
    /\ UNCHANGED <<faults, reviews, stepsRun, finalizeCalls, deployCalls, capCalls, signalsSent,
                   sigsHandled, path>>
    /\ UNCHANGED sideVars

\* The status poll sees "failed": raise, caught by the except branch.
BuildPollFailed ==
    /\ pc = "build_poll"
    /\ builds[buildId].status = "failed"
    /\ BuildReturn(FallbackImage, "failed")
    /\ UNCHANGED faults

\* The build is still not terminal after max_wait: "Build timeout after 10
\* minutes", caught by the except branch.
BuildPollTimeout ==
    /\ pc = "build_poll"
    /\ builds[buildId].status \in {"pending", "building"}
    /\ BuildReturn(FallbackImage, "failed")
    /\ Swallow(1)

\* The activity's start_to_close_timeout (10 minutes) expires while it is
\* still polling: the engine runs the activity again, which posts a new build.
BuildActivityRetry ==
    /\ pc = "build_poll"
    /\ builds[buildId].status \in {"pending", "building"}
    /\ Len(builds) < MaxBuilds
    /\ buildId' = 0
    /\ pc' = "build_post"
    /\ Swallow(1)
    /\ UNCHANGED <<iteration, current_image, approval_received, capability_approved,
                   argImage, stepImage, buildBase>>
    /\ UNCHANGED envVars
    /\ UNCHANGED <<reviews, stepsRun, finalizeCalls, deployCalls, capCalls, signalsSent,
                   sigsHandled, path, lastBuild>>
    /\ UNCHANGED sideVars

\* ---- the workflow's signal handler ----

Finished == pc \in {"done", "raised"}

\* @workflow.signal approve_capability(approved): runs in history order, i.e.
\* as soon as the engine has accepted the signal.
approve_capability_signal(approved) ==
    /\ approval_received' = TRUE
    /\ capability_approved' = approved
    /\ sigsHandled' = sigsHandled + 1

\* ---- control plane: capability review ----

Decisions == {"approved", "denied", "alternative_suggested"}

\* POST /requests/{id}/review on a pending request: set the status, commit,
\* then signal the task's workflow with approved = (decision == "approved").
\* Signalling a closed workflow raises; the handler logs and goes on.
review_capability_request(r, d) ==
    /\ r \in 1..Len(capRequests)
    /\ capRequests[r].status = "pending"
    /\ reviews < MaxReviews
    /\ reviews' = reviews + 1
    /\ capRequests' = [capRequests EXCEPT ![r].status =
                          CASE d = "approved" -> "approved"
                            [] d = "denied" -> "denied"
                            [] OTHER -> "pending"]
    /\ IF Finished
       THEN UNCHANGED <<approval_received, capability_approved, sigsHandled, signalsSent>>
       ELSE /\ approve_capability_signal(d = "approved")
            /\ signalsSent' = signalsSent + 1
    /\ UNCHANGED <<pc, iteration, current_image, argImage, stepImage, buildBase, buildId>>
    /\ UNCHANGED <<outputs, builds, deployments, taskStatus>>
    /\ UNCHANGED <<faults, stepsRun, finalizeCalls, deployCalls, capCalls, path, lastBuild>>
    /\ UNCHANGED sideVars

\* POST /approve (legacy) on a pending request: set the status; no signal.
approve_capability(r, approved) ==
    /\ r \in 1..Len(capRequests)
    /\ capRequests[r].status = "pending"
    /\ reviews < MaxReviews
    /\ reviews' = reviews + 1
    /\ capRequests' = [capRequests EXCEPT ![r].status =
                          IF approved THEN "approved" ELSE "denied"]
    /\ UNCHANGED wfVars
    /\ UNCHANGED <<outputs, builds, deployments, taskStatus>>
    /\ UNCHANGED <<faults, stepsRun, finalizeCalls, deployCalls, capCalls, signalsSent,
                   sigsHandled, path, lastBuild>>
    /\ UNCHANGED sideVars

\* ---- image builder: build_image_task ----

\* The background task of a recorded build: status building, then docker
\* build, tag and push.  When they go through the status is success and
\* image_tag becomes the registry tag {REGISTRY_URL}/{image_tag}; any exception
\* leaves the status failed.
build_image_task(b, ok) ==
    /\ b \in 1..Len(builds)
    /\ builds[b].status = "pending"
    /\ builds' = IF ok
                 THEN [builds EXCEPT ![b].status = "success",
                                     ![b].tag = [@ EXCEPT !.reg = REGISTRY_URL]]
                 ELSE [builds EXCEPT ![b].status = "failed"]
    /\ UNCHANGED wfVars
    /\ UNCHANGED <<outputs, capRequests, deployments, taskStatus>>
    /\ UNCHANGED histVars
    /\ UNCHANGED sideVars

Next ==
    \/ Initialize
    \/ StartIteration
    \/ LoopExit
    \/ BranchAgentFailed
    \/ BranchDeployment
    \/ BranchCompleted
    \/ BranchCapability
    \/ BranchContinue
    \/ WaitApproved
    \/ WaitDenied
    \/ ApprovalTimeout
    \/ BuildPostAccepted
    \/ BuildPostError
    \/ BuildPollSuccess
    \/ BuildPollFailed
    \/ BuildPollTimeout
    \/ BuildActivityRetry
    \/ \E r \in 1..MaxRequests, d \in Decisions : review_capability_request(r, d)
    \/ \E r \in 1..MaxRequests, approved \in BOOLEAN : approve_capability(r, approved)
    \/ \E b \in 1..MaxBuilds, ok \in BOOLEAN : build_image_task(b, ok)

Spec == Init /\ [][Next]_vars

\* The steps the workflow engine takes on its own: workflow tasks, activity
\* executions and timers (the 24 h approval timer, the build poll's max_wait
\* and the activity's start_to_close timeout) are always run to their end.
WorkflowStep ==
    \/ Initialize
    \/ StartIteration
    \/ LoopExit
    \/ BranchAgentFailed
    \/ BranchDeployment
    \/ BranchCompleted
    \/ BranchCapability
    \/ BranchContinue
    \/ WaitApproved
    \/ WaitDenied
    \/ ApprovalTimeout
    \/ BuildPostAccepted
    \/ BuildPostError
    \/ BuildPollSuccess
    \/ BuildPollFailed
    \/ BuildPollTimeout
    \/ BuildActivityRetry

\* The image builder's background tasks run to their end as well.
BuilderStep == \E b \in 1..MaxBuilds, ok \in BOOLEAN : build_image_task(b, ok)

\* The run under the engine's and the builder's scheduling; reviews are made
\* by people and nothing forces them.
FairSpec == Spec /\ WF_vars(WorkflowStep) /\ WF_vars(BuilderStep)

\* ---- control plane: the review endpoints, call by call ----
\* Each call runs in its own database session and is suspended at every
\* await: after the SELECT and the status test, after the commit, and (review
\* endpoint) after the signal.  Nothing locks the row between the SELECT and
\* the commit.

\* The task's workflow waits on its first capability request, still pending.
WaitingOnRequest ==
    /\ pc = "wait"
    /\ iteration = 1
    /\ current_image = DefaultImage
    /\ approval_received = FALSE
    /\ capability_approved = FALSE
    /\ argImage = NoImage
    /\ stepImage = DefaultImage
    /\ buildBase = NoImage
    /\ buildId = 0
    /\ outputs = <<1>>
    /\ capRequests = <<[status |-> "pending"]>>
    /\ builds = <<>>
    /\ deployments = <<>>
    /\ taskStatus = "running"
    /\ faults = 0
    /\ reviews = 0
    /\ stepsRun = 1
    /\ finalizeCalls = <<>>
    /\ deployCalls = 0
    /\ capCalls = 1
    /\ signalsSent = 0
    /\ sigsHandled = 0
    /\ path = "capability"
    /\ lastBuild = NoBuild

ReviewInit == WaitingOnRequest /\ NoCalls /\ NoStep /\ NoRequest /\ AtRest

\* The status the handler assigns to the loaded row.
DecidedStatus(call) ==
    CASE call.decision = "approved" -> "approved"
      [] call.decision = "denied" -> "denied"
      [] OTHER -> "pending"

\* SELECT the request and test `status != RequestStatus.PENDING`: HTTP 400
\* when the row is no longer pending.
ReviewSelect(c, endpoint, r, d) ==
    /\ reviewPc[c] = "idle"
    /\ r \in 1..Len(capRequests)
    /\ endpoint = "legacy" => d # "alternative_suggested"
    /\ reviewCall' = [reviewCall EXCEPT ![c] =
                         [endpoint |-> endpoint, request_id |-> r, decision |-> d]]
    /\ loadedStatus' = [loadedStatus EXCEPT ![c] = capRequests[r].status]
    /\ reviewPc' = [reviewPc EXCEPT ![c] =
                       IF capRequests[r].status # "pending" THEN "rejected" ELSE "loaded"]
    /\ UNCHANGED <<wfVars, envVars, histVars, stepVars, gwVars, moreVars>>

\* Assign the status and commit: the UPDATE writes the columns the session
\* modified, whatever the row holds by now.  The legacy endpoint returns here.
ReviewCommit(c) ==
    /\ reviewPc[c] = "loaded"
    /\ LET call == reviewCall[c] IN
          /\ capRequests' = IF DecidedStatus(call) # loadedStatus[c]
                            THEN [capRequests EXCEPT ![call.request_id].status =
                                                         DecidedStatus(call)]
                            ELSE capRequests
          /\ reviewPc' = [reviewPc EXCEPT ![c] =
                             IF call.endpoint = "legacy" THEN "returned" ELSE "committed"]
    /\ reviews' = reviews + 1
    /\ UNCHANGED <<wfVars, outputs, builds, deployments, taskStatus>>
    /\ UNCHANGED <<faults, stepsRun, finalizeCalls, deployCalls, capCalls, signalsSent,
                   sigsHandled, path, lastBuild>>
    /\ UNCHANGED <<reviewCall, loadedStatus, stepVars, gwVars, moreVars>>

\* Review endpoint, after the commit: signal the task's workflow with
\* approved = (decision == "approved"), then return the row.
ReviewSignal(c) ==
    /\ reviewPc[c] = "committed"
    /\ IF Finished
       THEN UNCHANGED <<approval_received, capability_approved, sigsHandled, signalsSent>>
       ELSE /\ approve_capability_signal(reviewCall[c].decision = "approved")
            /\ signalsSent' = signalsSent + 1
    /\ reviewPc' = [reviewPc EXCEPT ![c] = "returned"]
    /\ UNCHANGED <<pc, iteration, current_image, argImage, stepImage, buildBase, buildId>>
    /\ UNCHANGED envVars
    /\ UNCHANGED <<faults, reviews, stepsRun, finalizeCalls, deployCalls, capCalls, path,
                   lastBuild>>
    /\ UNCHANGED <<reviewCall, loadedStatus, stepVars, gwVars, moreVars>>

ReviewNext ==
    \/ \E c \in Calls, endpoint \in {"review", "legacy"}, r \in 1..MaxRequests,
          d \in Decisions : ReviewSelect(c, endpoint, r, d)
    \/ \E c \in Calls : ReviewCommit(c)
    \/ \E c \in Calls : ReviewSignal(c)

ReviewSpec == ReviewInit /\ [][ReviewNext]_vars

\* ---- AgentStepWorkflow: the turns of one step ----

\* The first step of a first run has been started by the task workflow.
StepRunning ==
    /\ pc = "step"
    /\ iteration = 1
    /\ current_image = DefaultImage
    /\ approval_received = FALSE
    /\ capability_approved = FALSE
    /\ argImage = NoImage
    /\ stepImage = DefaultImage
    /\ buildBase = NoImage
    /\ buildId = 0
    /\ outputs = <<>>
    /\ capRequests = <<>>
    /\ builds = <<>>
    /\ deployments = <<>>
    /\ taskStatus = "running"
    /\ faults = 0
    /\ reviews = 0
    /\ stepsRun = 1
    /\ finalizeCalls = <<>>
    /\ deployCalls = 0
    /\ capCalls = 0
    /\ signalsSent = 0
    /\ sigsHandled = 0
    /\ path = "none"
    /\ lastBuild = NoBuild

\* start_agent_container has returned the container: turns_seen = 0 and the
\* poll loop starts.
StepInit ==
    /\ StepRunning
    /\ NoCalls
    /\ NoRequest
    /\ AtRest
    /\ stepPc = "poll"
    /\ container = "running"
    /\ interactions = <<>>
    /\ turns_seen = 0
    /\ recorded = <<>>
    /\ turnsMade = 0
    /\ polls = 0
    /\ passedOver = FALSE

\* `for turn_data in turns: turns_seen += 1; record_agent_turn(task_id,
\* iteration, turns_seen, turn_data)`; a failing record is swallowed.
RecordTurns(turns) ==
    /\ Len(recorded) + Len(turns) <= MaxRecorded
    /\ turns_seen' = turns_seen + Len(turns)
    /\ recorded' = recorded \o [i \in 1..Len(turns) |->
                                  [turn_number |-> turns_seen + i, turn |-> turns[i]]]

\* The agent's LLM call goes through the gateway: _record_interaction appends
\* the turn, numbered len(interactions) + 1, unless the log is at its cap.
GatewayTurn ==
    /\ container = "running"
    /\ turnsMade < MaxTurns
    /\ turnsMade' = turnsMade + 1
    /\ interactions' = IF Len(interactions) >= _MAX_INTERACTIONS_PER_TASK
                       THEN interactions
                       ELSE Append(interactions, turnsMade + 1)
    /\ UNCHANGED <<stepPc, container, turns_seen, recorded, polls, passedOver>>
    /\ UNCHANGED <<wfVars, envVars, histVars, revVars, gwVars, moreVars>>

\* The agent's container exits.
ContainerExit ==
    /\ container = "running"
    /\ container' = "exited"
    /\ UNCHANGED <<stepPc, interactions, turns_seen, recorded, turnsMade, polls, passedOver>>
    /\ UNCHANGED <<wfVars, envVars, histVars, revVars, gwVars, moreVars>>

\* GET /api/llm/interactions/{task_id}: the `since` parameter of the caller is
\* not a parameter of the endpoint, which answers with the whole log.
get_task_interactions(log) == log

\* One pass of poll_agent_turns' loop (at most max_polls of them) in which a
\* GET brought turns or the container is no longer running: the activity
\* returns to the workflow, which records the new turns and polls again
\* unless container_done.  `seen` is the length of the log when the GET was
\* answered (0: the GET failed or the log was empty), the container status is
\* read after it.
PollAgentTurns(seen) ==
    /\ stepPc = "poll"
    /\ polls < max_polls
    /\ seen \in 0..Len(interactions)
    /\ seen > 0 \/ container = "exited"
    /\ RecordTurns(get_task_interactions(SubSeq(interactions, 1, seen)))
    /\ stepPc' = IF container = "exited" THEN "collect" ELSE "poll"
    /\ polls' = 0
    /\ UNCHANGED <<container, interactions, turnsMade, passedOver>>
    /\ UNCHANGED <<wfVars, envVars, histVars, revVars, gwVars, moreVars>>

\* One pass of the loop in which the GET brought nothing (it was answered
\* with an empty log, or it failed) and the container is running:
\* `await asyncio.sleep(3)`.
PollSleep(answered) ==
    /\ stepPc = "poll"
    /\ polls < max_polls
    /\ container = "running"
    /\ answered => interactions = <<>>
    /\ polls' = polls + 1
    /\ UNCHANGED <<stepPc, container, interactions, turns_seen, recorded, turnsMade,
                   passedOver>>
    /\ UNCHANGED <<wfVars, envVars, histVars, revVars, gwVars, moreVars>>

\* The loop has made its max_polls passes: the activity returns
\* {"container_done": False, "new_turns": []}, and the workflow's
\* `while not container_done` executes poll_agent_turns again.
PollCapReturn ==
    /\ stepPc = "poll"
    /\ polls = max_polls
    /\ RecordTurns(<<>>)
    /\ stepPc' = "poll"
    /\ polls' = 0
    /\ UNCHANGED <<container, interactions, turnsMade, passedOver>>
    /\ UNCHANGED <<wfVars, envVars, histVars, revVars, gwVars, moreVars>>

\* collect_agent_result read the container's output and found a result
\* (markers or result.json): `container.remove(force=True)`, whose failure is
\* passed over (`removed`); it fetches the whole log as _remaining_turns and
\* deletes it (`fetched`; nothing when the GET fails); the workflow records
\* all_turns[turns_seen:] and returns.
CollectResult(fetched, removed) ==
    /\ stepPc = "collect"
    /\ LET all_turns == IF fetched THEN get_task_interactions(interactions) ELSE <<>> IN
          RecordTurns(SubSeq(all_turns, turns_seen + 1, Len(all_turns)))
    /\ interactions' = IF fetched THEN <<>> ELSE interactions
    /\ container' = IF removed THEN "removed" ELSE container
    /\ passedOver' = (~fetched \/ ~removed)
    /\ stepPc' = "returned"
    /\ UNCHANGED <<turnsMade, polls>>
    /\ UNCHANGED <<wfVars, envVars, histVars, revVars, gwVars, moreVars>>

\* collect_agent_result read the container's output, removed the container
\* and found no result: the fallback envelope has no _remaining_turns and the
\* log is left as it is.
CollectNoResult(removed) ==
    /\ stepPc = "collect"
    /\ RecordTurns(<<>>)
    /\ container' = IF removed THEN "removed" ELSE container
    /\ passedOver' = ~removed
    /\ stepPc' = "returned"
    /\ UNCHANGED <<interactions, turnsMade, polls>>
    /\ UNCHANGED <<wfVars, envVars, histVars, revVars, gwVars, moreVars>>

\* containers.get, wait or logs raised something other than NotFound:
\* `return {"completed": False, "agent_failed": True, "error": str(e)}`, before
\* the container is removed and before the log is fetched.
CollectError ==
    /\ stepPc = "collect"
    /\ RecordTurns(<<>>)
    /\ stepPc' = "returned"
    /\ UNCHANGED <<container, interactions, turnsMade, polls, passedOver>>
    /\ UNCHANGED <<wfVars, envVars, histVars, revVars, gwVars, moreVars>>

StepNext ==
    \/ GatewayTurn
    \/ ContainerExit
    \/ \E seen \in 0..MaxTurns : PollAgentTurns(seen)
    \/ \E answered \in BOOLEAN : PollSleep(answered)
    \/ PollCapReturn
    \/ \E fetched, removed \in BOOLEAN : CollectResult(fetched, removed)
    \/ \E removed \in BOOLEAN : CollectNoResult(removed)
    \/ CollectError

StepSpec == StepInit /\ [][StepNext]_vars

\* What the workflow engine and the worker do on their own: activities are
\* executed and run to their end.  Nothing makes the container exit.
StepWorkflowStep ==
    \/ \E seen \in 0..MaxTurns : PollAgentTurns(seen)
    \/ \E answered \in BOOLEAN : PollSleep(answered)
    \/ PollCapReturn
    \/ \E fetched, removed \in BOOLEAN : CollectResult(fetched, removed)
    \/ \E removed \in BOOLEAN : CollectNoResult(removed)
    \/ CollectError

StepFairSpec == StepSpec /\ WF_vars(StepWorkflowStep)

\* ---- LLM gateway: one streaming chat completion ----

GatewayInit == StepRunning /\ NoCalls /\ NoStep /\ NoRequest /\ AtRest

notGwVars == <<wfVars, envVars, histVars, revVars, stepVars, moreVars>>

\* A ChatCompletionResponse as _generate_sse_chunks reads it: whether there
\* is a choice, the pieces of its content, its tool calls (each with one
\* piece of arguments), the type of their `arguments` (a JSON string, or
\* the object that call_ollama passes on as Ollama sent it) and its
\* finish_reason.
Responses ==
    [choices : BOOLEAN, content : 0..MaxContent, tool_calls : 0..1,
     arguments : {"string", "object"},
     finish_reason : {"null", "stop", "tool_calls"}]

Repeat(n, chunk) == [i \in 1..n |-> chunk]

\* `tc_args[i:i + args_chunk_size]` raises when tc_args is not a string.
slicing_raises(response) ==
    response.choices /\ response.tool_calls > 0 /\ response.arguments = "object"

\* _generate_sse_chunks: role chunk, content chunks, two chunks per tool
\* call (the opening one, then the arguments), the final chunk with
\* finish_reason and usage, then [DONE]; an empty list of choices gives one
\* chunk without choices and [DONE]; arguments that cannot be sliced end the
\* generator after the opening chunk.
_generate_sse_chunks(response) ==
    IF ~response.choices
    THEN <<Chunk(0, "empty", "null"), Done(0)>>
    ELSE <<Chunk(0, "role", "null")>>
         \o Repeat(response.content, Chunk(0, "content", "null"))
         \o (IF slicing_raises(response)
             THEN <<Chunk(0, "tool_calls", "null")>>
             ELSE Repeat(2 * response.tool_calls, Chunk(0, "tool_calls", "null"))
                  \o <<Chunk(0, "final", response.finish_reason), Done(0)>>)

\* The chunk stream_gemini makes up when its retries are exhausted: content
\* "[LLM_ERROR] ...", finish_reason "stop".
ErrorChunk == Chunk(0, "llm_error", "stop")

\* Streaming request for a Gemini model: chat_completions returns the
\* StreamingResponse over stream_gemini, whose first attempt starts.
RequestGemini ==
    /\ gwPc = "idle"
    /\ provider' = "gemini"
    /\ reply' = "sse"
    /\ attempt' = 1
    /\ gwPc' = "connect"
    /\ UNCHANGED <<collected_lines, malformed, emitted, attemptLog>>
    /\ UNCHANGED notGwVars

\* The same without GEMINI_API_KEY: the response has started when the
\* generator raises HTTPException(503), and the stream breaks off.
RequestGeminiNoKey ==
    /\ gwPc = "idle"
    /\ provider' = "gemini"
    /\ reply' = "sse_aborted"
    /\ gwPc' = "closed"
    /\ attemptLog' = <<"no_key">>
    /\ UNCHANGED <<attempt, collected_lines, malformed, emitted>>
    /\ UNCHANGED notGwVars

\* Streaming request for another provider: `response = await handler(req)`.
RequestOther(p) ==
    /\ gwPc = "idle"
    /\ p \in Providers \ {"gemini"}
    /\ provider' = p
    /\ gwPc' = "handler"
    /\ UNCHANGED <<attempt, collected_lines, malformed, reply, emitted, attemptLog>>
    /\ UNCHANGED notGwVars

\* The handler returned a response: StreamingResponse over _generate_sse_chunks.
HandlerReturns(response) ==
    /\ gwPc = "handler"
    /\ reply' = (IF slicing_raises(response) THEN "sse_aborted" ELSE "sse")
    /\ emitted' = _generate_sse_chunks(response)
    /\ attemptLog' = <<"ok">>
    /\ gwPc' = "closed"
    /\ UNCHANGED <<provider, attempt, collected_lines, malformed>>
    /\ UNCHANGED notGwVars

\* The handler raised (no API key: HTTPException 503; HTTPStatusError;
\* ConnectError; anything else): chat_completions raises HTTPException and
\* the client gets a JSON error response.
HandlerRaises(err) ==
    /\ gwPc = "handler"
    /\ err = "no_key" => provider # "ollama"
    /\ reply' = "http_error"
    /\ attemptLog' = <<err>>
    /\ gwPc' = "closed"
    /\ UNCHANGED <<provider, attempt, collected_lines, malformed, emitted>>
    /\ UNCHANGED notGwVars

\* A failed attempt of stream_gemini: `continue` while attempt < max_retries,
\* else the error chunk and [DONE], and return.
GeminiRetryOrFail(outcome) ==
    /\ attemptLog' = Append(attemptLog, outcome)
    /\ collected_lines' = <<>>
    /\ malformed' = FALSE
    /\ IF attempt < max_retries
       THEN /\ attempt' = attempt + 1
            /\ gwPc' = "connect"
            /\ emitted' = emitted
       ELSE /\ attempt' = attempt
            /\ gwPc' = "closed"
            /\ emitted' = emitted \o <<ErrorChunk, Done(0)>>
    /\ UNCHANGED <<provider, reply>>
    /\ UNCHANGED notGwVars

\* Gemini answers with a status other than 200.
GeminiNon200 ==
    /\ gwPc = "connect"
    /\ GeminiRetryOrFail("non200")

\* The request or the reading of the stream raises.
GeminiException ==
    /\ gwPc \in {"connect", "receiving"}
    /\ GeminiRetryOrFail("exception")

\* Gemini answers 200 and the stream is read line by line.
GeminiOpen ==
    /\ gwPc = "connect"
    /\ gwPc' = "receiving"
    /\ UNCHANGED <<provider, attempt, collected_lines, malformed, reply, emitted, attemptLog>>
    /\ UNCHANGED notGwVars

Kinds(lines) == {lines[i].kind : i \in 1..Len(lines)}

CountKind(lines, kind) == Cardinality({i \in 1..Len(lines) : lines[i].kind = kind})

\* The lines Gemini may send next: content chunks, tool_calls deltas, one
\* chunk with the finish_reason (whatever Gemini chooses, "stop" included
\* after tool_calls deltas), then [DONE].
UpstreamNext(lines) ==
    IF "done" \in Kinds(lines) THEN {}
    ELSE IF "final" \in Kinds(lines) THEN {Done(attempt)}
    ELSE {Chunk(attempt, "final", fr) : fr \in {"stop", "tool_calls", "MALFORMED_FUNCTION_CALL"}}
         \cup (IF CountKind(lines, "tool_calls") < MaxToolCalls
               THEN {Chunk(attempt, "tool_calls", "null")} ELSE {})
         \cup (IF "tool_calls" \notin Kinds(lines) /\ CountKind(lines, "content") < MaxContent
               THEN {Chunk(attempt, "content", "null")} ELSE {})

UpstreamLines ==
    {Chunk(a, kind, fr) : a \in 1..max_retries, kind \in {"content", "tool_calls", "final", "done"},
                          fr \in {"null", "stop", "tool_calls", "MALFORMED_FUNCTION_CALL"}}

\* call_gemini on the parsed response: a choice with tool_calls gets the
\* finish_reason "tool_calls" whatever Gemini said; a missing one is "stop".
gemini_finish_reason(finish_reason, tool_calls) ==
    IF tool_calls > 0 /\ finish_reason # "tool_calls" THEN "tool_calls"
    ELSE IF finish_reason = "null" THEN "stop"
    ELSE finish_reason

\* GeminiLine yielding each line as it arrives.
GeminiLine_Streams(line) ==
    /\ gwPc = "receiving"
    /\ line \in UpstreamNext(collected_lines)
    /\ collected_lines' = Append(collected_lines, line)
    /\ emitted' = Append(emitted, line)
    /\ malformed' = (malformed \/ line.finish_reason = "MALFORMED_FUNCTION_CALL")
    /\ UNCHANGED <<gwPc, provider, attempt, reply, attemptLog>>
    /\ UNCHANGED notGwVars

\* `async for line in resp.aiter_lines()`: a data line is collected, and
\* marks the attempt malformed when it holds MALFORMED_FUNCTION_CALL.
GeminiLine(line) ==
    /\ gwPc = "receiving"
    /\ line \in UpstreamNext(collected_lines)
    /\ collected_lines' = Append(collected_lines, line)
    /\ malformed' = (malformed \/ line.finish_reason = "MALFORMED_FUNCTION_CALL")
    /\ UNCHANGED <<gwPc, provider, attempt, reply, emitted, attemptLog>>
    /\ UNCHANGED notGwVars

\* The upstream stream ended: retry a malformed attempt while attempt <
\* max_retries; otherwise yield all collected lines and stop.
GeminiEnd ==
    /\ gwPc = "receiving"
    /\ UpstreamNext(collected_lines) = {}
    /\ attemptLog' = Append(attemptLog, IF malformed THEN "malformed" ELSE "ok")
    /\ IF malformed /\ attempt < max_retries
       THEN /\ attempt' = attempt + 1
            /\ gwPc' = "connect"
            /\ collected_lines' = <<>>
            /\ malformed' = FALSE
            /\ emitted' = emitted
       ELSE /\ gwPc' = "closed"
            /\ emitted' = emitted \o collected_lines
            /\ UNCHANGED <<attempt, collected_lines, malformed>>
    /\ UNCHANGED <<provider, reply>>
    /\ UNCHANGED notGwVars

GatewayNext ==
    \/ RequestGemini
    \/ RequestGeminiNoKey
    \/ \E p \in Providers : RequestOther(p)
    \/ \E response \in Responses : HandlerReturns(response)
    \/ \E err \in {"no_key", "http_status", "connect", "other"} : HandlerRaises(err)
    \/ GeminiNon200
    \/ GeminiException
    \/ GeminiOpen
    \/ \E line \in UpstreamLines : GeminiLine(line)
    \/ GeminiEnd

GatewaySpec == GatewayInit /\ [][GatewayNext]_vars

\* ---- Gemini requests and the thought-signature cache ----

SigInit == StepRunning /\ NoCalls /\ NoStep /\ NoRequest /\ AtRest

oldVars == <<wfVars, envVars, histVars, revVars, stepVars, gwVars>>

notSigVars == <<oldVars, logVars, cfgVars, depVars, lateVars>>

\* A tool call as a message carries it: its id and the thought_signature
\* under extra_content.google ("": none).
ToolCalls == [id : {""} \cup TcIds, sig : {""} \cup Sigs]

\* The injection with a signature the caller sent left in place.
inject_thought_signature_KeepsCallers(cache, tc) ==
    IF tc.id # "" /\ tc.id \in DOMAIN cache /\ tc.sig = ""
    THEN [tc EXCEPT !.sig = cache[tc.id]]
    ELSE tc

\* call_gemini and stream_gemini building the upstream messages: a tool call
\* whose id is in the cache gets the cached signature, whatever it carried.
inject_thought_signature(cache, tc) ==
    IF tc.id # "" /\ tc.id \in DOMAIN cache
    THEN [tc EXCEPT !.sig = cache[tc.id]]
    ELSE tc

\* `if tc_id and sig: _thought_sig_cache[tc_id] = sig`
cache_thought_signature(cache, tc) ==
    IF tc.id # "" /\ tc.sig # ""
    THEN [id \in DOMAIN cache \cup {tc.id} |-> IF id = tc.id THEN tc.sig ELSE cache[id]]
    ELSE cache

\* A Gemini request comes in whose history holds an assistant tool call with
\* the given id and signature field; the messages are built and posted.
GeminiRequest(r, stream, id, sig) ==
    /\ sigPc[r] = "idle"
    /\ sigPc' = [sigPc EXCEPT ![r] = "upstream"]
    /\ sigReq' = [sigReq EXCEPT ![r] = [stream |-> stream, id |-> id, sig |-> sig]]
    /\ sigFwd' = [sigFwd EXCEPT ![r] =
                     inject_thought_signature(_thought_sig_cache, [id |-> id, sig |-> sig]).sig]
    /\ sigAttempt' = [sigAttempt EXCEPT ![r] = 1]
    /\ expected' = [expected EXCEPT ![r] = delivered[id]]
    /\ UNCHANGED <<_thought_sig_cache, delivered>>
    /\ UNCHANGED notSigVars

\* The request is over: its handler's locals are gone.
SigReturn(r) ==
    /\ sigPc' = [sigPc EXCEPT ![r] = "idle"]
    /\ sigReq' = [sigReq EXCEPT ![r] = NoSigRequest]
    /\ sigFwd' = [sigFwd EXCEPT ![r] = ""]
    /\ sigAttempt' = [sigAttempt EXCEPT ![r] = 0]
    /\ expected' = [expected EXCEPT ![r] = ""]

\* Gemini answers with a tool call (or none: id and sig empty). A streamed
\* answer with MALFORMED_FUNCTION_CALL is dropped and the request posted
\* again while attempt < max_retries; any other answer has its signatures
\* cached and goes to the caller.
GeminiAnswer(r, tc, bad) ==
    /\ sigPc[r] = "upstream"
    /\ bad => sigReq[r].stream
    /\ IF bad /\ sigAttempt[r] < max_retries
       THEN /\ sigAttempt' = [sigAttempt EXCEPT ![r] = @ + 1]
            /\ UNCHANGED <<sigPc, sigReq, sigFwd, _thought_sig_cache, delivered, expected>>
       ELSE /\ _thought_sig_cache' = cache_thought_signature(_thought_sig_cache, tc)
            /\ delivered' = IF tc.id \in TcIds /\ tc.sig \in Sigs
                             THEN [delivered EXCEPT ![tc.id] = tc.sig]
                             ELSE delivered
            /\ SigReturn(r)
    /\ UNCHANGED notSigVars

\* Gemini does not answer 200 or the request raises: stream_gemini tries
\* again while attempt < max_retries and then sends its error chunk;
\* call_gemini raises. Nothing is cached.
GeminiFails(r) ==
    /\ sigPc[r] = "upstream"
    /\ IF sigReq[r].stream /\ sigAttempt[r] < max_retries
       THEN /\ sigAttempt' = [sigAttempt EXCEPT ![r] = @ + 1]
            /\ UNCHANGED <<sigPc, sigReq, sigFwd, expected>>
       ELSE SigReturn(r)
    /\ UNCHANGED <<_thought_sig_cache, delivered>>
    /\ UNCHANGED notSigVars

SigNext ==
    \/ \E r \in SigRequests, stream \in BOOLEAN, id \in TcIds, sig \in CallerSigs :
          GeminiRequest(r, stream, id, sig)
    \/ \E r \in SigRequests, tc \in ToolCalls, bad \in BOOLEAN : GeminiAnswer(r, tc, bad)
    \/ \E r \in SigRequests : GeminiFails(r)

SigSpec == SigInit /\ [][SigNext]_vars

\* ---- one task's interaction log: chat completions, GET and DELETE ----

LogInit == StepRunning /\ NoCalls /\ NoStep /\ NoRequest /\ AtRest

notLogVars == <<oldVars, sigVars, cfgVars, depVars, lateVars>>

\* _record_interaction numbering a turn by the length of the list.
_record_interaction_FromZero(log) ==
    IF Len(log) >= _MAX_INTERACTIONS_PER_TASK THEN log
    ELSE Append(log, Len(log))

\* _record_interaction without its safety cap.
_record_interaction_NoCap(log) == Append(log, Len(log) + 1)

\* _record_interaction on the task's list (an absent key is the empty list):
\* nothing at the cap, else an entry with turn = len(interactions) + 1.
_record_interaction(log) ==
    IF Len(log) >= _MAX_INTERACTIONS_PER_TASK THEN log
    ELSE Append(log, Len(log) + 1)

\* clear_task_interactions leaving the list in place.
clear_task_interactions_Keeps(log) == log

\* DELETE /interactions/{task_id}: `_task_interactions.pop(task_id, [])`.
clear_task_interactions(log) == <<>>

\* A chat completion with the task's bearer token comes in, streaming
\* (Gemini's stream is recorded when it ends) or not.
ChatStart(c, stream) ==
    /\ chatPc[c] = "idle"
    /\ chatPc' = [chatPc EXCEPT ![c] = IF stream THEN "stream" ELSE "call"]
    /\ UNCHANGED <<_task_interactions, lastRecord, purged, quiet>>
    /\ UNCHANGED notLogVars

\* The completion is done and chat_completions calls _record_interaction,
\* which has no await: it runs in one piece.
ChatRecord(c) ==
    /\ chatPc[c] # "idle"
    /\ chatPc' = [chatPc EXCEPT ![c] = "idle"]
    /\ _task_interactions' = _record_interaction(_task_interactions)
    /\ lastRecord' = IF Len(_task_interactions) >= _MAX_INTERACTIONS_PER_TASK
                     THEN "dropped" ELSE "recorded"
    /\ quiet' = <<>>
    /\ UNCHANGED purged
    /\ UNCHANGED notLogVars

\* The completion ends without a call of _record_interaction: the handler
\* raised, or the answer had no choice (`if task_id and msg0`).
ChatNoRecord(c) ==
    /\ chatPc[c] # "idle"
    /\ chatPc' = [chatPc EXCEPT ![c] = "idle"]
    /\ UNCHANGED <<_task_interactions, lastRecord, purged, quiet>>
    /\ UNCHANGED notLogVars

\* GET /interactions/{task_id}
GetInteractions ==
    /\ Len(quiet) < MaxDrainOps
    /\ quiet' = Append(quiet, [op |-> "get",
                               interactions |-> get_task_interactions(_task_interactions)])
    /\ UNCHANGED <<_task_interactions, chatPc, lastRecord, purged>>
    /\ UNCHANGED notLogVars

\* DELETE /interactions/{task_id}
ClearInteractions ==
    /\ Len(quiet) < MaxDrainOps
    /\ _task_interactions' = clear_task_interactions(_task_interactions)
    /\ purged' = (purged \/ _task_interactions # <<>>)
    /\ quiet' = Append(quiet, [op |-> "delete", interactions |-> <<>>])
    /\ UNCHANGED <<chatPc, lastRecord>>
    /\ UNCHANGED notLogVars

LogNext ==
    \/ \E c \in Completions, stream \in BOOLEAN : ChatStart(c, stream)
    \/ \E c \in Completions : ChatRecord(c)
    \/ \E c \in Completions : ChatNoRecord(c)
    \/ GetInteractions
    \/ ClearInteractions

LogSpec == LogInit /\ [][LogNext]_vars

\* ---- the gateway's provider configuration: POST, GET, restart ----

ConfigInit ==
    /\ StepRunning /\ NoCalls /\ NoStep /\ NoRequest
    /\ NoSigs /\ NoLog /\ NoDeployments /\ LateAtRest
    /\ \E env \in Environments : FreshConfig(env)

notCfgVars == <<oldVars, sigVars, logVars, depVars, lateVars>>

RECURSIVE lstrip(_)
lstrip(str) == IF str # <<>> /\ Head(str) = " " THEN lstrip(Tail(str)) ELSE str

RECURSIVE rstrip(_)
rstrip(str) ==
    IF str # <<>> /\ str[Len(str)] = " " THEN rstrip(SubSeq(str, 1, Len(str) - 1)) ELSE str

\* str.strip()
strip(str) == rstrip(lstrip(str))

Stars(n) == [i \in 1..n |-> "*"]

\* key[:n]
Prefix(key, n) == SubSeq(key, 1, IF n < Len(key) THEN n ELSE Len(key))

\* _mask_key: "" for no key, the first two characters and stars up to ten
\* characters, else the first four, stars, the last four.
_mask_key(key) ==
    IF key = <<>> THEN <<>>
    ELSE IF Len(key) <= 10 THEN Prefix(key, 2) \o Stars(Len(key) - 2)
    ELSE Prefix(key, 4) \o Stars(Len(key) - 8) \o SubSeq(key, Len(key) - 3, Len(key))

\* What get_config answers for a key holding `value`.
Display(k, value) == IF k = "OLLAMA_URL" THEN value ELSE _mask_key(value)

\* _load_config_from_db: once per process; rows with a non-empty value
\* replace the in-memory value; a failing SELECT leaves _config as it is.
\* Either way _config_loaded becomes TRUE.
_load_config_from_db(config, loaded, table, dbUp) ==
    IF loaded \/ ~dbUp THEN config
    ELSE [k \in _CONFIG_KEYS |->
            IF table[k] # <<>> /\ table[k][1] # <<>> THEN table[k][1] ELSE config[k]]

\* update_config's test of a field (<<>>: the field is absent): OLLAMA_URL
\* is taken when it is not blank, an API key whenever it is given.
Accepted(k, field) ==
    /\ field # <<>>
    /\ k = "OLLAMA_URL" => strip(field[1]) # <<>>

\* _save_config_to_db: the upsert, or nothing when it fails (logged only).
_save_config_to_db(table, k, value, dbUp) ==
    IF dbUp THEN [table EXCEPT ![k] = <<value>>] ELSE table

Updates == [_CONFIG_KEYS -> {<<>>} \cup {<<v>> : v \in Values}]

\* get_config's answer from the in-memory values.
Answer(config) == [k \in _CONFIG_KEYS |-> Display(k, config[k])]

\* POST /config: every accepted field is stripped, stored in _config and
\* saved; with at least one change the answer carries get_config().
update_config(update, dbUp) ==
    LET changed == {k \in _CONFIG_KEYS : Accepted(k, update[k])}
        stored == [k \in _CONFIG_KEYS |->
                     IF k \in changed THEN strip(update[k][1]) ELSE _config[k]]
        saved == [k \in _CONFIG_KEYS |->
                    IF k \in changed /\ dbUp THEN <<stored[k]>> ELSE llm_provider_config[k]]
        loaded == _load_config_from_db(stored, _config_loaded, saved, dbUp)
    IN  /\ lastPosted' = [k \in _CONFIG_KEYS |->
                             IF k \in changed THEN update[k] ELSE lastPosted[k]]
        /\ llm_provider_config' = saved
        /\ IF changed = {}
           THEN UNCHANGED <<_config, _config_loaded, shown>>
           ELSE /\ _config' = loaded
                /\ _config_loaded' = TRUE
                /\ shown' = <<Answer(loaded)>>
        /\ dbFailed' = (dbFailed \/ (~dbUp /\ changed # {}))
        /\ UNCHANGED environ
        /\ UNCHANGED notCfgVars

\* GET /config
get_config(dbUp) ==
    LET loaded == _load_config_from_db(_config, _config_loaded, llm_provider_config, dbUp) IN
    /\ _config' = loaded
    /\ _config_loaded' = TRUE
    /\ shown' = <<Answer(loaded)>>
    /\ dbFailed' = (dbFailed \/ (~dbUp /\ ~_config_loaded))
    /\ UNCHANGED <<environ, llm_provider_config, lastPosted>>
    /\ UNCHANGED notCfgVars

\* The process restarts: the module is imported again.
Restart ==
    /\ _config' = environ
    /\ _config_loaded' = FALSE
    /\ shown' = <<>>
    /\ UNCHANGED <<environ, llm_provider_config, lastPosted, dbFailed>>
    /\ UNCHANGED notCfgVars

ConfigNext ==
    \/ \E update \in Updates, dbUp \in BOOLEAN : update_config(update, dbUp)
    \/ \E dbUp \in BOOLEAN : get_config(dbUp)
    \/ Restart

ConfigSpec == ConfigInit /\ [][ConfigNext]_vars

\* ---- deployments: POST start / stop and the two container activities ----

\* Other containers bind all ports of the range but some of MaybeFree.
DeployInit ==
    /\ StepRunning /\ NoCalls /\ NoStep /\ NoRequest
    /\ NoSigs /\ NoLog /\ NoConfig /\ LateAtRest
    /\ \E free \in SUBSET MaybeFree : DeploymentsBuilt(Ports \ free)

notDepVars == <<oldVars, sigVars, logVars, cfgVars, lateVars>>

\* The host ports that the containers of the daemon bind: a container has
\* bindings in NetworkSettings.Ports while it runs.
BoundPorts == otherPorts \cup {cont[d].port : d \in {e \in Deployments : cont[e].state = "running"}}

\* The choice of the port picking the highest free one.
pick_host_port_Highest(used) ==
    IF Ports \subseteq used THEN 0
    ELSE CHOOSE p \in Ports \ used : \A q \in Ports \ used : q <= p

\* `for p in range(9100, 9121): if p not in used_ports: host_port = p; break`
\* (0: host_port stays None).
pick_host_port(used) ==
    IF Ports \subseteq used THEN 0
    ELSE CHOOSE p \in Ports \ used : \A q \in Ports \ used : p <= q

\* POST /deployments/{id}/start: accepted for a built or stopped deployment;
\* it starts DeploymentRunWorkflow(start), whose activity begins.
start_deployment(d) ==
    /\ depStatus[d] \in {"built", "stopped"}
    /\ startPc[d] = "idle"
    /\ starts[d] < MaxStarts
    /\ starts' = [starts EXCEPT ![d] = @ + 1]
    /\ startPc' = [startPc EXCEPT ![d] = "scan"]
    /\ UNCHANGED <<otherPorts, depStatus, depHostPort, depContainer, cont, used_ports,
                   host_port, startErr, stopPc, bindFailed>>
    /\ UNCHANGED notDepVars

\* start_deployment_container up to the choice of host_port: the daemon's
\* containers are listed and the lowest port none of them binds is taken;
\* without one the exception is raised.
StartScan(d) ==
    /\ startPc[d] = "scan"
    /\ used_ports' = [used_ports EXCEPT ![d] = BoundPorts]
    /\ host_port' = [host_port EXCEPT ![d] = pick_host_port(BoundPorts)]
    /\ IF pick_host_port(BoundPorts) = 0
       THEN /\ startPc' = [startPc EXCEPT ![d] = "except"]
            /\ startErr' = [startErr EXCEPT ![d] = "no_ports"]
       ELSE /\ startPc' = [startPc EXCEPT ![d] = "run"]
            /\ UNCHANGED startErr
    /\ UNCHANGED <<otherPorts, depStatus, depHostPort, depContainer, cont, stopPc, starts,
                   bindFailed>>
    /\ UNCHANGED notDepVars

\* docker_client.containers.run(name=deploy-<id>, ports={port: host_port}):
\* the daemon refuses a name in use; it creates the container and fails to
\* start it when host_port has been bound since the scan; else the container
\* runs.
StartRun(d) ==
    /\ startPc[d] = "run"
    /\ IF cont[d].state # "none"
       THEN /\ startPc' = [startPc EXCEPT ![d] = "except"]
            /\ startErr' = [startErr EXCEPT ![d] = "name_conflict"]
            /\ UNCHANGED <<cont, bindFailed>>
       ELSE IF host_port[d] \in BoundPorts
       THEN /\ startPc' = [startPc EXCEPT ![d] = "except"]
            /\ startErr' = [startErr EXCEPT ![d] = "port_bind"]
            /\ cont' = [cont EXCEPT ![d] = [state |-> "created", port |-> 0, id |-> starts[d]]]
            /\ bindFailed' = [bindFailed EXCEPT ![d] = TRUE]
       ELSE /\ startPc' = [startPc EXCEPT ![d] = "patch"]
            /\ cont' = [cont EXCEPT ![d] =
                           [state |-> "running", port |-> host_port[d], id |-> starts[d]]]
            /\ UNCHANGED <<startErr, bindFailed>>
    /\ UNCHANGED <<otherPorts, depStatus, depHostPort, depContainer, used_ports, host_port,
                   stopPc, starts>>
    /\ UNCHANGED notDepVars

\* The activity's locals are gone.
StartReturn(d) ==
    /\ startPc' = [startPc EXCEPT ![d] = "idle"]
    /\ used_ports' = [used_ports EXCEPT ![d] = {}]
    /\ host_port' = [host_port EXCEPT ![d] = 0]
    /\ startErr' = [startErr EXCEPT ![d] = "none"]

\* PATCH status running, container_id, host_port, url; the activity returns.
StartPatch(d) ==
    /\ startPc[d] = "patch"
    /\ depStatus' = [depStatus EXCEPT ![d] = "running"]
    /\ depContainer' = [depContainer EXCEPT ![d] = cont[d].id]
    /\ depHostPort' = [depHostPort EXCEPT ![d] = host_port[d]]
    /\ StartReturn(d)
    /\ UNCHANGED <<otherPorts, cont, stopPc, starts, bindFailed>>
    /\ UNCHANGED notDepVars

\* `except Exception`: PATCH status failed; the activity returns {"error"}.
StartExcept(d) ==
    /\ startPc[d] = "except"
    /\ depStatus' = [depStatus EXCEPT ![d] = "failed"]
    /\ StartReturn(d)
    /\ UNCHANGED <<otherPorts, depHostPort, depContainer, cont, stopPc, starts, bindFailed>>
    /\ UNCHANGED notDepVars

\* POST /deployments/{id}/stop: accepted for a running deployment; it starts
\* DeploymentRunWorkflow(stop), whose activity begins.
stop_deployment(d) ==
    /\ depStatus[d] = "running"
    /\ stopPc[d] = "idle"
    /\ stopPc' = [stopPc EXCEPT ![d] = "remove"]
    /\ UNCHANGED <<otherPorts, depStatus, depHostPort, depContainer, cont, startPc,
                   used_ports, host_port, startErr, starts, bindFailed>>
    /\ UNCHANGED notDepVars

\* stop_deployment_container up to its PATCH: without container_id it
\* returns an error; else the container is stopped and removed (NotFound is
\* only logged).
StopRemove(d) ==
    /\ stopPc[d] = "remove"
    /\ IF depContainer[d] = 0
       THEN /\ stopPc' = [stopPc EXCEPT ![d] = "idle"]
            /\ UNCHANGED cont
       ELSE /\ stopPc' = [stopPc EXCEPT ![d] = "patch"]
            /\ cont' = IF cont[d].state # "none" /\ cont[d].id = depContainer[d]
                       THEN [cont EXCEPT ![d] = NoContainer]
                       ELSE cont
    /\ UNCHANGED <<otherPorts, depStatus, depHostPort, depContainer, startPc, used_ports,
                   host_port, startErr, starts, bindFailed>>
    /\ UNCHANGED notDepVars

\* PATCH status stopped, container_id None, host_port None, url None.
StopPatch(d) ==
    /\ stopPc[d] = "patch"
    /\ depStatus' = [depStatus EXCEPT ![d] = "stopped"]
    /\ depContainer' = [depContainer EXCEPT ![d] = 0]
    /\ depHostPort' = [depHostPort EXCEPT ![d] = 0]
    /\ stopPc' = [stopPc EXCEPT ![d] = "idle"]
    /\ UNCHANGED <<otherPorts, cont, startPc, used_ports, host_port, startErr, starts,
                   bindFailed>>
    /\ UNCHANGED notDepVars

DeployNext ==
    \/ \E d \in Deployments : start_deployment(d)
    \/ \E d \in Deployments : StartScan(d)
    \/ \E d \in Deployments : StartRun(d)
    \/ \E d \in Deployments : StartPatch(d)
    \/ \E d \in Deployments : StartExcept(d)
    \/ \E d \in Deployments : stop_deployment(d)
    \/ \E d \in Deployments : StopRemove(d)
    \/ \E d \in Deployments : StopPatch(d)

DeploySpec == DeployInit /\ [][DeployNext]_vars

\* ---- control plane: POST /deployments/{id}/approve, call by call ----
\* Each call runs in its own database session and is suspended at every
\* await: after the SELECT and the status test, after the commit, and after
\* start_workflow.  Nothing locks the row between the SELECT and the commit.

ApproveInit == StepRunning /\ NoCalls /\ NoStep /\ NoRequest /\ AtRest

notApVars == <<oldVars, sigVars, logVars, cfgVars, depVars, dblVars, wrapVars>>

\* SELECT the deployment and test `status != PENDING_APPROVAL`: HTTP 400 when
\* the row is not in pending_approval.
ApproveSelect(c, approved, notes) ==
    /\ approvePc[c] = "idle"
    /\ decision' = [decision EXCEPT ![c] = [approved |-> approved, notes |-> notes]]
    /\ approvePc' = [approvePc EXCEPT ![c] =
                        IF deployment.status # "pending_approval" THEN "rejected"
                        ELSE "loaded"]
    /\ UNCHANGED <<deployment, buildWorkflow, buildsStarted>>
    /\ UNCHANGED notApVars

\* `if not decision.approved`: status failed, error = notes or "Deployment
\* denied by user", commit, return.  Else status approved, commit.  The
\* UPDATE writes the columns the session set, whatever the row holds by now.
ApproveCommit(c) ==
    /\ approvePc[c] = "loaded"
    /\ IF decision[c].approved
       THEN /\ deployment' = [deployment EXCEPT !.status = "approved"]
            /\ approvePc' = [approvePc EXCEPT ![c] = "committed"]
       ELSE /\ deployment' = [status |-> "failed",
                              error |-> IF decision[c].notes = ""
                                        THEN "Deployment denied by user"
                                        ELSE decision[c].notes]
            /\ approvePc' = [approvePc EXCEPT ![c] = "denied"]
    /\ UNCHANGED <<decision, buildWorkflow, buildsStarted>>
    /\ UNCHANGED notApVars

\* start_workflow("DeploymentBuildWorkflow", id="deploy-build-<id>"): the
\* engine refuses the id while a workflow of that id is open, and the call
\* raises when the engine cannot be reached (`up`); `except Exception` then
\* sets status failed, error "Failed to start build: ..." and commits.
ApproveStartWorkflow(c, up) ==
    /\ approvePc[c] = "committed"
    /\ IF up /\ buildWorkflow \in {"none", "closed"}
       THEN /\ buildWorkflow' = "started"
            /\ buildsStarted' = buildsStarted + 1
            /\ approvePc' = [approvePc EXCEPT ![c] = "started"]
            /\ UNCHANGED deployment
       ELSE /\ deployment' = [status |-> "failed", error |-> "Failed to start build"]
            /\ approvePc' = [approvePc EXCEPT ![c] = IF up THEN "refused" ELSE "unreachable"]
            /\ UNCHANGED <<buildWorkflow, buildsStarted>>
    /\ UNCHANGED decision
    /\ UNCHANGED notApVars

\* build_deployment_image, the activity of DeploymentBuildWorkflow: PATCH
\* status building, then the build at the image builder.
BuildDeploymentBegin ==
    /\ buildWorkflow = "started"
    /\ buildWorkflow' = "building"
    /\ deployment' = [deployment EXCEPT !.status = "building"]
    /\ UNCHANGED <<approvePc, decision, buildsStarted>>
    /\ UNCHANGED notApVars

\* The build ends: PATCH image_tag and status built, or, from the except
\* branch, PATCH status failed and the error; the workflow closes.
BuildDeploymentEnd(ok) ==
    /\ buildWorkflow = "building"
    /\ buildWorkflow' = "closed"
    /\ deployment' = IF ok THEN [deployment EXCEPT !.status = "built"]
                     ELSE [status |-> "failed", error |-> "Build failed"]
    /\ UNCHANGED <<approvePc, decision, buildsStarted>>
    /\ UNCHANGED notApVars

ApproveNext ==
    \/ \E c \in ApproveCalls, approved \in BOOLEAN, notes \in {"", "note"} :
          ApproveSelect(c, approved, notes)
    \/ \E c \in ApproveCalls : ApproveCommit(c)
    \/ \E c \in ApproveCalls, up \in BOOLEAN : ApproveStartWorkflow(c, up)
    \/ BuildDeploymentBegin
    \/ \E ok \in BOOLEAN : BuildDeploymentEnd(ok)

ApproveSpec == ApproveInit /\ [][ApproveNext]_vars

\* ---- POST /deployments/{id}/start, more than once ----
\* Every accepted call starts a DeploymentRunWorkflow of its own (the
\* workflow id ends in a random suffix), so the start activities of one
\* deployment may run side by side.

\* Other containers bind all ports of the range but some of MaybeFree.
DoubleStartInit ==
    /\ StepRunning /\ NoCalls /\ NoStep /\ NoRequest
    /\ NoSigs /\ NoLog /\ NoConfig /\ LateAtRest
    /\ \E free \in SUBSET MaybeFree : DeploymentsBuilt(Ports \ free)

notDblVars == <<oldVars, sigVars, logVars, cfgVars, depVars, apVars, wrapVars>>

\* POST /start: HTTP 400 unless the row is built or stopped; else the
\* workflow is started and its activity begins.
StartCallPost(c) ==
    /\ runPc[c] = "idle"
    /\ runPc' = [runPc EXCEPT ![c] = IF started.status \in {"built", "stopped"}
                                     THEN "scan" ELSE "rejected"]
    /\ UNCHANGED <<runHostPort, started, deployContainer>>
    /\ UNCHANGED notDblVars

\* start_deployment_container up to the choice of host_port: the lowest port
\* of the range that no container of the daemon binds.
StartCallScan(c) ==
    /\ runPc[c] = "scan"
    /\ LET used == otherPorts \cup (IF deployContainer.state = "running"
                                    THEN {deployContainer.port} ELSE {}) IN
          /\ runHostPort' = [runHostPort EXCEPT ![c] = pick_host_port(used)]
          /\ runPc' = [runPc EXCEPT ![c] = IF pick_host_port(used) = 0 THEN "except"
                                           ELSE "run"]
    /\ UNCHANGED <<started, deployContainer>>
    /\ UNCHANGED notDblVars

\* containers.run(name=deploy-<id>, ports={port: host_port}): the daemon
\* refuses a name in use, which raises; else the container runs.
StartCallRun(c) ==
    /\ runPc[c] = "run"
    /\ IF deployContainer.state # "none"
       THEN /\ runPc' = [runPc EXCEPT ![c] = "except"]
            /\ UNCHANGED deployContainer
       ELSE /\ runPc' = [runPc EXCEPT ![c] = "patch"]
            /\ deployContainer' = [state |-> "running", port |-> runHostPort[c], id |-> c]
    /\ UNCHANGED <<runHostPort, started>>
    /\ UNCHANGED notDblVars

\* PATCH status running, container_id, host_port, url; the activity returns.
StartCallPatch(c) ==
    /\ runPc[c] = "patch"
    /\ started' = [status |-> "running", container_id |-> c, host_port |-> runHostPort[c]]
    /\ runPc' = [runPc EXCEPT ![c] = "returned"]
    /\ UNCHANGED <<runHostPort, deployContainer>>
    /\ UNCHANGED notDblVars

\* `except Exception`: PATCH status failed and the error; the activity
\* returns {"error"}.
StartCallExcept(c) ==
    /\ runPc[c] = "except"
    /\ started' = [started EXCEPT !.status = "failed"]
    /\ runPc' = [runPc EXCEPT ![c] = "returned"]
    /\ UNCHANGED <<runHostPort, deployContainer>>
    /\ UNCHANGED notDblVars

DoubleStartNext ==
    \/ \E c \in StartCalls : StartCallPost(c)
    \/ \E c \in StartCalls : StartCallScan(c)
    \/ \E c \in StartCalls : StartCallRun(c)
    \/ \E c \in StartCalls : StartCallPatch(c)
    \/ \E c \in StartCalls : StartCallExcept(c)

DoubleStartSpec == DoubleStartInit /\ [][DoubleStartNext]_vars

\* ---- the agent wrapper, result collection and the workflow's branch ----

WrapperInit == StepRunning /\ NoCalls /\ NoStep /\ NoRequest /\ AtRest

notWrapVars == <<oldVars, sigVars, logVars, cfgVars, depVars, apVars, dblVars>>

\* The result main() builds: capability_requested when request_capability
\* returned true, completed and deployment_requested for a deployment,
\* completed when the agent exited with 0, completed false otherwise (no
\* prompt, LLM error, non-zero exit code, capability request not posted).
WrapperResult(outcome, posted) ==
    [agent_failed |-> FALSE,
     deployment_requested |-> (outcome = "deployment"),
     completed |-> (outcome \in {"deployment", "completed"}),
     capability_requested |-> (outcome = "capability" /\ posted),
     parse_error |-> FALSE]

\* write_result: the result is written to /workspace/result.json unless the
\* write fails, which is passed over, and printed between the markers.
write_result(file, result, written) ==
    IF written THEN <<[from |-> ITERATION, result |-> result]>> ELSE file

\* request_capability: POST /api/capabilities/requests, which stores a
\* pending row; true when the answer carries an id.
request_capability(posted) ==
    IF posted THEN Append(requestRows, [by |-> "wrapper", iteration |-> ITERATION])
    ELSE requestRows

\* The wrapper's main() runs to its exit; `outcome` is what it finds in the
\* agent's output.
WrapperMain(outcome, posted, written) ==
    /\ wrapperPc = "running"
    /\ outcome # "capability" => posted
    /\ requestRows' = IF outcome = "capability" THEN request_capability(posted)
                      ELSE requestRows
    /\ result_json' = write_result(result_json, WrapperResult(outcome, posted), written)
    /\ container_output' = <<WrapperResult(outcome, posted)>>
    /\ wrapperPc' = "exited"
    /\ UNCHANGED <<ITERATION, collected>>
    /\ UNCHANGED notWrapVars

\* The container ends before main() reaches write_result (it is killed, or
\* the interpreter dies): no marker block, result.json is left as it is.
WrapperKilled ==
    /\ wrapperPc = "running"
    /\ wrapperPc' = "exited"
    /\ UNCHANGED <<ITERATION, container_output, result_json, collected, requestRows>>
    /\ UNCHANGED notWrapVars

\* collect_agent_result on the exited container, then the workflow's branch
\* on the envelope: finalize after agent_failed, deployment_requested or
\* completed; after capability_requested the create_capability_request
\* activity posts a row (`posted`) and the approval is waited for; then the
\* next iteration's container is launched on the same workspace directory
\* (`os.makedirs(workspace_dir, exist_ok=True)`).
CollectAndBranch(posted) ==
    /\ wrapperPc = "exited"
    /\ LET file == IF result_json = <<>> THEN <<>> ELSE <<result_json[1].result>>
           env == collect_agent_result(container_output, file)
           from == IF container_output # <<>> \/ result_json = <<>> THEN ITERATION
                   ELSE result_json[1].from
       IN /\ collected' = [iteration |-> ITERATION, from |-> from, result |-> <<env>>]
          /\ requestRows' = IF Classify(env) = "capability" /\ posted
                            THEN Append(requestRows,
                                        [by |-> "workflow", iteration |-> ITERATION])
                            ELSE requestRows
          /\ Classify(env) # "capability" => posted
          /\ IF Terminal(env) \/ ITERATION = MaxWrapperRuns
             THEN /\ wrapperPc' = "done"
                  /\ UNCHANGED <<ITERATION, container_output>>
             ELSE /\ wrapperPc' = "running"
                  /\ ITERATION' = ITERATION + 1
                  /\ container_output' = <<>>
    /\ UNCHANGED result_json
    /\ UNCHANGED notWrapVars

WrapperNext ==
    \/ \E outcome \in {"capability", "deployment", "completed", "not_completed"},
          posted, written \in BOOLEAN : WrapperMain(outcome, posted, written)
    \/ WrapperKilled
    \/ \E posted \in BOOLEAN : CollectAndBranch(posted)

WrapperSpec == WrapperInit /\ [][WrapperNext]_vars

\* ---- image builder: POST /build from any client ----
MaxPosts == 3           \* POST /build calls for the task

\* The builder has just started: its `builds` dict is empty.
BuilderInit == StepRunning /\ NoCalls /\ NoStep /\ NoRequest /\ AtRest

\* POST /build: the handler has no await, so it runs in one piece.  The
\* version is one above the number of the task's builds that are success,
\* building or pending; the record is created pending and build_image_task is
\* queued as a background task.
build_image(base) ==
    /\ Len(builds) < MaxPosts
    /\ LET version == Cardinality(LiveBuilds) + 1 IN
          builds' = Append(builds, [status |-> "pending",
                                    tag |-> Image("", "task", version),
                                    base |-> ToRegistry(base)])
    /\ UNCHANGED wfVars
    /\ UNCHANGED <<outputs, capRequests, deployments, taskStatus>>
    /\ UNCHANGED histVars
    /\ UNCHANGED sideVars

BuilderNext ==
    \/ \E base \in {DefaultImage, FallbackImage} : build_image(base)
    \/ \E b \in 1..MaxPosts, ok \in BOOLEAN : build_image_task(b, ok)

BuilderSpec == BuilderInit /\ [][BuilderNext]_vars

TypeOK ==
    /\ pc \in {"start", "loop", "step", "wait", "build_post", "build_poll",
               "done", "raised"}
    /\ iteration \in 0..max_iterations
    /\ faults \in 0..MaxFaults

\* ---- properties ----

Decided == Cardinality({r \in 1..Len(capRequests) : capRequests[r].status # "pending"})

BuildFailed == lastBuild.outcome = "failed"

Building == pc \in {"build_post", "build_poll"}

\* C1: after the workflow consumed approve_capability(true), build_agent_image
\* is invoked with the workflow's current image as base, and once a build has
\* succeeded every later agent step of the run uses the most recent
\* successfully built image.
C1_StepsRunOnBuiltImage ==
    /\ Building => buildBase = current_image
    /\ (pc = "step" /\ lastBuild.lastOk # NoImage) => stepImage = lastBuild.lastOk

\* C2: every approval wait is resolved by exactly one approve_capability
\* signal (never by none, never by more), and the number of signals sent
\* equals the number of requests that have left pending.
C2_OneSignalPerRequest ==
    /\ signalsSent = Decided
    /\ pc = "build_post" => sigsHandled = 1

\* C3: when the 24 h approval wait expires without a signal the run ends
\* with finalize_task called with status failed.
C3_TimeoutFinalisesFailed ==
    (path = "timeout" /\ Finished) => finalizeCalls = <<"failed">>

\* C4: after a failed image build the agent steps run on the image that was
\* current_image when the build was requested.
C4_FailedBuildKeepsPriorImage ==
    (pc = "step" /\ BuildFailed) => stepImage = lastBuild.base

\* C5: a failed image build (status failed, builder error, poll timeout) never
\* fails the run or finalises the task as failed: the build activity always
\* returns to the workflow, which clears both approval flags and goes back to
\* the iteration loop, whose next step is iteration + 1.
C5_BuildFailureNotFatal ==
    /\ [][(Building /\ pc' \notin {"build_post", "build_poll"}) =>
            /\ pc' = "loop"
            /\ ~approval_received'
            /\ ~capability_approved'
            /\ finalizeCalls' = finalizeCalls
            /\ lastBuild'.ret = current_image']_vars
    /\ []((path = "approved" /\ BuildFailed /\ ~Building) =>
            /\ pc \in {"loop", "done"}
            /\ \A i \in 1..Len(finalizeCalls) : finalizeCalls[i] # "failed")
    /\ [][(pc = "loop" /\ iteration < max_iterations /\ pc' # pc) =>
            (pc' = "step" /\ iteration' = iteration + 1)]_vars

C5_Witness ==
    /\ pc = "step"
    /\ lastBuild.outcome = "failed"
    /\ stepsRun = 2
    /\ finalizeCalls = <<>>

\* C6: when the workflow consumes approve_capability(false) it starts no
\* image build, leaves current_image and the build records unchanged, does not
\* finalise the task, clears both approval flags and returns to the iteration
\* loop; the iteration never reaches the build or a failed finalisation.
C6_DenialContinues ==
    /\ [][(pc = "wait" /\ approval_received /\ ~capability_approved /\ pc' # pc) =>
            /\ pc' = "loop"
            /\ builds' = builds
            /\ current_image' = current_image
            /\ finalizeCalls' = finalizeCalls
            /\ ~approval_received'
            /\ ~capability_approved']_vars
    /\ [](path = "denied" =>
            /\ pc \in {"loop", "done"}
            /\ current_image = stepImage
            /\ \A i \in 1..Len(finalizeCalls) : finalizeCalls[i] # "failed")

C6_Witness ==
    /\ path = "denied"
    /\ pc = "loop"
    /\ builds = <<>>
    /\ ~approval_received
    /\ iteration < max_iterations

\* C7: an envelope with agent_failed, whatever its other flags, makes the
\* workflow call finalize_task with status failed and end: no deployment or
\* capability request is created for it and no further iteration starts.
C7_AgentFailedFinalisesFailed ==
    /\ [][(pc = "step" /\ pc' # pc
             /\ path' \in {"agent_failed", "agent_failed_with_flags"}) =>
            /\ pc' = "done"
            /\ finalizeCalls' = <<"failed">>
            /\ deployCalls' = deployCalls /\ deployments' = deployments
            /\ capCalls' = capCalls /\ capRequests' = capRequests]_vars
    /\ [](path \in {"agent_failed", "agent_failed_with_flags"} =>
            /\ pc = "done"
            /\ finalizeCalls = <<"failed">>)

C7_Witness ==
    /\ path = "agent_failed_with_flags"
    /\ pc = "done"
    /\ finalizeCalls = <<"failed">>

\* C8: an envelope with completed and without agent_failed or
\* deployment_requested ends the loop after that iteration: the workflow
\* creates no capability request for it and finalises the task as completed;
\* when it is the first iteration of a first run, the run has exactly one
\* iteration and no capability request at all.
C8_CompletedFinalisesCompleted ==
    /\ [][(pc = "step" /\ pc' # pc /\ path' = "completed") =>
            /\ pc' = "done"
            /\ finalizeCalls' = <<"completed">>
            /\ capCalls' = capCalls
            /\ capRequests' = capRequests]_vars
    /\ [](path = "completed" =>
            /\ pc = "done"
            /\ finalizeCalls = <<"completed">>
            /\ (iteration = 1 /\ argImage = NoImage) =>
                  (stepsRun = 1 /\ capCalls = 0 /\ capRequests = <<>>))

C8_Witness ==
    /\ path = "completed"
    /\ pc = "done"
    /\ iteration = 1
    /\ stepsRun = 1
    /\ finalizeCalls = <<"completed">>

\* C9: an envelope with deployment_requested and without agent_failed makes
\* the workflow run create_deployment exactly once, which leaves exactly one
\* Deployment row, in pending_approval; no further iteration starts and the
\* task is finalised as completed.
C9_DeploymentRowCreated ==
    path = "deployment" =>
        /\ deployCalls = 1
        /\ Len(deployments) = 1
        /\ \A i \in 1..Len(deployments) : deployments[i].status = "pending_approval"
        /\ pc = "done"
        /\ finalizeCalls = <<"completed">>

\* C10: no agent step is ever started with an iteration number above 50;
\* each step started is numbered one above the previous; once the loop is
\* re-entered after iteration 50 the workflow goes to finalize_task and never
\* to another step.
C10_IterationCap ==
    /\ [](iteration <= max_iterations /\ stepsRun <= max_iterations)
    /\ [][(pc' = "step" /\ pc # "step") =>
            (iteration < max_iterations /\ iteration' = iteration + 1
               /\ stepsRun' = stepsRun + 1)]_vars
    /\ [][(pc = "loop" /\ iteration >= max_iterations /\ pc' # pc) =>
            (pc' = "done" /\ Len(finalizeCalls') = 1)]_vars

C10_Witness ==
    /\ iteration = max_iterations
    /\ path = "continue"
    /\ pc = "done"
    /\ stepsRun = 1

\* C11: the TaskOutput rows of a task carry strictly increasing (hence pairwise
\* distinct) iteration numbers across the first run and its continuations, and
\* the first iteration a continuation runs is numbered one above the highest
\* iteration stored before it, whatever get_last_iteration and the earlier
\* store_task_output calls returned.
C11_IterationsStrictlyIncreasing ==
    /\ \A i \in 1..(Len(outputs) - 1) : outputs[i] < outputs[i + 1]
    /\ (pc = "step" /\ stepsRun = 1 /\ argImage # NoImage) =>
          iteration = SeqMax(outputs) + 1

Approved == Cardinality({r \in 1..Len(capRequests) : capRequests[r].status = "approved"})

\* C12: whenever a CapabilityRequest becomes approved, through the review
\* endpoint or the legacy approve endpoint, a new image-builder build for the
\* task is eventually started: the n-th approved request leads to at least n
\* builds accepted by the image builder.
C12_ApprovedLeadsToBuild ==
    \A n \in 1..MaxRequests : (Approved >= n) ~> (Len(builds) >= n)

\* The shared base image of the agent images: the builder's BASE_IMAGE
\* (openclaw-agent:openclaw), or the openclaw-agent:base tag under which the
\* worker and the control plane refer to a task without builds.
SharedBase(img) == img.kind \in {"openclaw", "base"}

\* C14: among the successful builds of a task, the Dockerfile of version 1 is
\* FROM the shared base image and the Dockerfile of version k > 1 is FROM the
\* image of the successful build of version k - 1, for every sequence of
\* approvals, build successes and build failures.
C14_IncrementalLayering ==
    \A b \in 1..Len(builds) :
       builds[b].status = "success" =>
          IF builds[b].tag.ver = 1
          THEN SharedBase(builds[b].base)
          ELSE \A p \in 1..Len(builds) :
                  (builds[p].status = "success" /\ builds[p].tag.ver = builds[b].tag.ver - 1)
                     => builds[b].base = builds[p].tag

\* Calls that have committed a decision for request r.
Deciders(r) ==
    {c \in Calls : /\ reviewCall[c].request_id = r
                   /\ reviewCall[c].decision \in {"approved", "denied"}
                   /\ reviewPc[c] \in {"committed", "returned"}}

\* C13: once a CapabilityRequest has left pending its row never changes
\* again, and every other review or legacy approve call on it, concurrent
\* ones included, is rejected: at most one call ever commits a decision for
\* the request.
C13_DecidedIsTerminal ==
    /\ [][\A r \in 1..Len(capRequests) :
            capRequests[r].status # "pending" => capRequests'[r] = capRequests[r]]_vars
    /\ [](\A r \in 1..Len(capRequests) : Cardinality(Deciders(r)) <= 1)

\* C15: the record_agent_turn activities of one step are the turns the gateway
\* recorded during the step, each exactly once, in the gateway's order, with
\* turn_number equal to the turn's position: at every moment the executions
\* are a prefix of that sequence, and when the step returns they are all of it.
C15_TurnsRecordedOnceInOrder ==
    /\ \A i \in 1..Len(recorded) : recorded[i] = [turn_number |-> i, turn |-> i]
    /\ stepPc = "returned" => Len(recorded) = turnsMade

DoneCount(events) == Cardinality({i \in 1..Len(events) : events[i].kind = "done"})

FinishCount(events) == Cardinality({i \in 1..Len(events) : events[i].finish_reason # "null"})

\* C17: every SSE stream the gateway has sent for a streaming chat completion
\* ends with [DONE], holds [DONE] exactly once and holds at most one chunk
\* with a finish_reason.
C17_StreamEndsWithOneDone ==
    (gwPc = "closed" /\ reply \in {"sse", "sse_aborted"}) =>
        /\ emitted # <<>>
        /\ emitted[Len(emitted)].kind = "done"
        /\ DoneCount(emitted) = 1
        /\ FinishCount(emitted) <= 1

Failure == {"non200", "exception", "malformed"}

\* C18: when every attempt of a streaming Gemini request failed (status other
\* than 200, exception, or MALFORMED_FUNCTION_CALL), the client's stream is
\* the one synthetic [LLM_ERROR] chunk followed by [DONE].
C18_PersistentFailureGivesErrorChunk ==
    (/\ gwPc = "closed"
     /\ provider = "gemini"
     /\ Len(attemptLog) = max_retries
     /\ \A i \in 1..Len(attemptLog) : attemptLog[i] \in Failure) =>
        emitted = <<ErrorChunk, Done(0)>>

GatewayError ==
    /\ attemptLog # <<>>
    /\ attemptLog[Len(attemptLog)] \in {"no_key", "http_status", "connect", "other",
                                         "non200", "exception"}

\* C19: in streaming mode a gateway error (missing API key, provider response
\* that is not 2xx, connection failure, other exception), for any provider,
\* gives the client an SSE response with the [LLM_ERROR] chunk followed by
\* [DONE]: never a stream without [DONE], never an error that is not SSE.
C19_StreamingErrorsAreSse ==
    (gwPc = "closed" /\ GatewayError) =>
        /\ reply = "sse"
        /\ Len(emitted) >= 2
        /\ emitted[Len(emitted) - 1] = ErrorChunk
        /\ emitted[Len(emitted)].kind = "done"

\* C20: when earlier attempts of a streaming Gemini call were discarded
\* (MALFORMED_FUNCTION_CALL, status other than 200, exception) and a later
\* one succeeds, the client gets one stream, all at once, made of exactly the
\* lines of the successful attempt, so that its finish_reason is that
\* attempt's; nothing is sent while attempts can still be discarded.
C20_OnlySuccessfulAttemptEmitted ==
    /\ [][emitted # <<>> => emitted' = emitted]_vars
    /\ []((provider = "gemini" /\ gwPc # "closed") => emitted = <<>>)
    /\ []((/\ gwPc = "closed"
           /\ provider = "gemini"
           /\ attemptLog # <<>>
           /\ attemptLog[Len(attemptLog)] = "ok") =>
              /\ emitted = collected_lines
              /\ \A i \in 1..Len(emitted) : emitted[i].attempt = Len(attemptLog)
              /\ FinishCount(emitted) = 1
              /\ \A i \in 1..Len(emitted) :
                    emitted[i].finish_reason \in {"null", "stop", "tool_calls"})

C20_Witness ==
    /\ gwPc = "closed"
    /\ attemptLog = <<"malformed", "malformed", "ok">>
    /\ emitted = <<Chunk(3, "final", "tool_calls"), Done(3)>>

\* C21: a Gemini answer with tool calls and finish_reason "stop" reaches the
\* caller with finish_reason "tool_calls": call_gemini rewrites the parsed
\* choice, and a finished Gemini stream that carried tool_calls deltas has no
\* chunk with finish_reason "stop".
C21_StopWithToolCallsNormalised ==
    /\ \A n \in 1..MaxToolCalls : gemini_finish_reason("stop", n) = "tool_calls"
    /\ (gwPc = "closed" /\ provider = "gemini" /\ "tool_calls" \in Kinds(emitted))
          => \A i \in 1..Len(emitted) : emitted[i].finish_reason # "stop"

\* C22: once a Gemini answer that reached a caller carried a thought
\* signature for a tool-call id, every Gemini request that comes in later,
\* streaming or not, with that tool call in its history goes upstream with
\* the signature (the last one delivered for the id), whatever the caller
\* put in its place.
C22_SignatureRoundTrip ==
    \A r \in SigRequests :
        (sigPc[r] = "upstream" /\ expected[r] # "") => sigFwd[r] = expected[r]

C22_Witness ==
    \E r \in SigRequests :
        /\ sigPc[r] = "upstream"
        /\ sigReq[r].stream
        /\ sigReq[r].sig = "from_caller"
        /\ expected[r] = "sig_2"
        /\ sigFwd[r] = "sig_2"

\* C23: a stream synthesised from a handler's response is one role chunk,
\* the content chunks, the chunks of the tool calls (opening chunk, then
\* arguments), one terminal chunk with the finish_reason, and [DONE], in
\* this order.
C23_SynthesisedStreamOrder ==
    (gwPc = "closed" /\ provider \in Providers \ {"gemini"}
       /\ reply \in {"sse", "sse_aborted"}) =>
        LET n == Len(emitted) IN
        /\ n >= 3
        /\ emitted[1].kind = "role"
        /\ emitted[n - 1].kind = "final"
        /\ emitted[n].kind = "done"
        /\ \A i \in 2..(n - 2) : emitted[i].kind \in {"content", "tool_calls"}
        /\ \A i, j \in 2..(n - 2) :
              (i < j /\ emitted[i].kind = "tool_calls") => emitted[j].kind = "tool_calls"

\* C24: the turns in the task's log are numbered 1, 2, ..., N in list order,
\* without gap or duplicate, whatever streaming and non-streaming
\* completions and purges have happened in whatever order.
C24_TurnsAreOneToN ==
    \A i \in 1..Len(_task_interactions) : _task_interactions[i] = i

C24_Witness ==
    /\ purged
    /\ Len(_task_interactions) = 2
    /\ \E c \in Completions : chatPc[c] = "stream"
    /\ \E c \in Completions : chatPc[c] = "call"

\* C25: the task's log never holds more than 100 turns.
C25_AtMostHundredTurns ==
    Len(_task_interactions) <= 100

C25_Witness ==
    /\ Len(_task_interactions) = 100
    /\ lastRecord = "dropped"

\* C26: with no completion in between, a GET leaves the log as it is and
\* answers with all of it, a DELETE leaves it empty, and the GET of a second
\* drain answers with the empty list.
C26_DrainTwice ==
    \A i \in 1..Len(quiet) :
        /\ (quiet[i].op = "get" /\ \A j \in 1..Len(quiet) : quiet[j].op = "get")
              => quiet[i].interactions = _task_interactions
        /\ (quiet[i].op = "get" /\ \E j \in 1..(i - 1) : quiet[j].op = "delete")
              => quiet[i].interactions = <<>>
        /\ quiet[i].op = "delete" => _task_interactions = <<>>

C26_Witness ==
    /\ Len(quiet) = 4
    /\ quiet[1].op = "get" /\ Len(quiet[1].interactions) = 3
    /\ quiet[2].op = "delete"
    /\ quiet[3].op = "get" /\ quiet[3].interactions = <<>>
    /\ quiet[4].op = "delete"

\* C27: once POST /config has set a key to a value, every later answer of
\* GET /config, before or after a restart of the process, shows that value
\* (stripped; masked for an API key), the empty string for an API key
\* included, as long as no statement on the table has failed.
C27_ConfigSurvivesRestart ==
    \A k \in _CONFIG_KEYS :
        (~dbFailed /\ lastPosted[k] # <<>> /\ shown # <<>>) =>
            shown[1][k] = Display(k, strip(lastPosted[k][1]))

\* C28: at any moment no two deployments with status running have the same
\* host_port, whatever the interleaving of the start and stop workflows of
\* different deployments.
C28_RunningPortsDistinct ==
    \A d, e \in Deployments :
        (d # e /\ depStatus[d] = "running" /\ depStatus[e] = "running")
            => depHostPort[d] # depHostPort[e]

\* C29: after a deployment's `run` failed because a racing start had bound
\* the port, the start of that deployment can be retried: once its activity
\* is over, POST start is accepted for it.
C29_RetryAfterBindFailure ==
    \A d \in Deployments :
        (bindFailed[d] /\ startPc[d] = "idle") => depStatus[d] \in {"built", "stopped", "running"}

\* C30: the start takes the lowest port of 9100..9120 that no container
\* binds; the container it runs binds that port; with no free port it ends
\* in the no-available-ports error with no container run and the deployment
\* not marked running.
C30_LowestFreePort ==
    \A d \in Deployments :
        /\ startPc[d] \in {"run", "patch"} =>
              /\ host_port[d] \in Ports \ used_ports[d]
              /\ \A p \in Ports \ used_ports[d] : host_port[d] <= p
        /\ startPc[d] = "patch" =>
              cont[d].state = "running" /\ cont[d].port = host_port[d]
        /\ (startPc[d] \in {"run", "patch", "except"} /\ Ports \subseteq used_ports[d]) =>
              /\ startPc[d] = "except"
              /\ startErr[d] = "no_ports"
              /\ cont[d].state = "none"
              /\ depStatus[d] # "running"
        /\ startErr[d] = "no_ports" => Ports \subseteq used_ports[d]

\* Exactly one port was free and the start runs its container on it.
C30_Witness ==
    \E d \in Deployments :
        /\ startPc[d] = "patch"
        /\ Ports \ used_ports[d] = {9120}
        /\ cont[d] = [state |-> "running", port |-> 9120, id |-> 1]

\* C34: an approve_capability signal that reaches the workflow while it is not
\* waiting (during an agent step or a build, or before any request exists)
\* decides no later request: whenever the workflow schedules an image build,
\* the request of the iteration, which is the row created last when no
\* activity request has failed, has been approved by a review.
C34_BuildFollowsReviewOfItsRequest ==
    (faults = 0 /\ pc = "build_post") =>
        /\ capRequests # <<>>
        /\ capRequests[Len(capRequests)].status = "approved"

\* C35: a run calls finalize_task with status completed only after an
\* iteration of the run returned completed or deployment_requested, also when
\* the loop ends at the iteration cap or a continuation starts at the cap.
C35_CompletedNeedsTerminalFlag ==
    (pc = "done" /\ finalizeCalls # <<>> /\ finalizeCalls[Len(finalizeCalls)] = "completed") =>
        path \in {"completed", "deployment"}

\* C39: no two builds of the task that are pending, building or successful
\* carry the same version number, under any interleaving of POST /build
\* requests and build failures.
C39_LiveVersionsDistinct ==
    \A a, b \in LiveBuilds : a # b => builds[a].tag.ver # builds[b].tag.ver

\* C32: an agent step always terminates: once poll_agent_turns has made its
\* max_polls passes with the container still running, polling stops and the
\* workflow goes on to result collection.
C32_PollingStopsAtCap ==
    (stepPc = "poll" /\ polls = max_polls) ~> (stepPc \in {"collect", "returned"})

\* C33: after an agent step has finished with any outcome (envelope parsed,
\* parse error, collection error), the container launched for it has been
\* removed, unless a removal that failed was passed over.
C33_ContainerRemovedAfterStep ==
    (stepPc = "returned" /\ ~passedOver) => container = "removed"

\* C37: when an agent step ends, with any outcome, the gateway's interaction
\* buffer of the task is empty, unless a fetch or a removal that failed was
\* passed over.
C37_BufferEmptyAtStepEnd ==
    (stepPc = "returned" /\ ~passedOver) => interactions = <<>>

\* C31: POST /deployments/{id}/approve acts only on a deployment in
\* pending_approval: once a denial has returned, the deployment is failed and
\* stays so, and no build has been started for it; once an approval has
\* started the build, exactly one DeploymentBuildWorkflow has been started
\* for the deployment.
C31_ApproveActsOnPendingOnly ==
    \A c \in ApproveCalls :
       /\ approvePc[c] = "denied" => (deployment.status = "failed" /\ buildsStarted = 0)
       /\ approvePc[c] = "started" => buildsStarted = 1

\* C40: when POST /deployments/{id}/start was accepted more than once for a
\* built deployment and all the start workflows have finished, the
\* deployment has one running container and its row is running with that
\* container's id and host port (two ports of the range or more being free).
C40_DoubleStartLeavesRunning ==
    (Cardinality(Ports \ otherPorts) >= 2 /\ \A c \in StartCalls : runPc[c] = "returned") =>
        /\ deployContainer.state = "running"
        /\ started.status = "running"
        /\ started.container_id = deployContainer.id
        /\ started.host_port = deployContainer.port

\* C36: the envelope collect_agent_result returns for iteration k was
\* produced by the container of iteration k (or made up by that call when
\* there is neither a marker block nor a result.json).
C36_ResultComesFromItsIteration ==
    collected.from = collected.iteration

\* C38: an iteration that reports capability_requested leaves exactly one
\* CapabilityRequest row of the task for it.
C38_OneRowPerCapabilityRequest ==
    (collected.result # <<>> /\ collected.result[1].capability_requested) =>
        Cardinality({i \in 1..Len(requestRows) :
                        requestRows[i].iteration = collected.iteration}) = 1

====
